---- MODULE Spec2Model ----
(***************************************************************************)
(* A model of server/tracker_server.py: the multi-event position server.   *)
(*                                                                         *)
(* Strings that the server sanitizes are sequences of one-character        *)
(* strings (<<"a", "<">> is the Python string "a<"); numbers are integers  *)
(* (latitudes and longitudes are whole degrees); a Python dict is a        *)
(* function whose DOMAIN is its key set.  A decoded JSON value carries its *)
(* Python type in the field t.                                             *)
(***************************************************************************)
EXTENDS Integers, Sequences, FiniteSets, TLC

VARIABLES
    events,             \* EventManager.events: eid -> event config
    registry,           \* EventManager's next_eid and manager_password, and events.json
    failed_auth_times,  \* _failed_auth_times: ip -> time of the last failed auth
    event_trackers,     \* _event_trackers: eid -> EventTracker
    disk,               \* the files under html_dir/<eid>/ of every event
    now,                \* time.time(), in whole seconds
    response,           \* the ACK or error body of the last handled report
    stdout,             \* the last line a handler printed
    pc,                 \* per thread: its place inside the handler it runs
    loc                 \* per thread: the local variables of that handler

vars == <<events, registry, failed_auth_times, event_trackers, disk, now, response, stdout, pc, loc>>

(***************************************************************************)
(* Python helpers                                                          *)
(***************************************************************************)
PyMax(a, b) == IF b > a THEN b ELSE a
PyMin(a, b) == IF b < a THEN b ELSE a

\* d[k] = v on a dict
DictSet(d, k, v) == [x \in (DOMAIN d) \cup {k} |-> IF x = k THEN v ELSE d[x]]
\* del d[k]
DictDel(d, k) == [x \in (DOMAIN d) \ {k} |-> d[x]]
EmptyDict == [x \in {} |-> 0]

\* Optional arguments: None is <<>>, a value x is <<x>>
None == <<>>
Some(x) == <<x>>

(***************************************************************************)
(* Decoded JSON values                                                     *)
(***************************************************************************)
JNull == [t |-> "null"]
JInt(n) == [t |-> "int", v |-> n]
JStr(s) == [t |-> "str", s |-> s]
JBool(b) == [t |-> "bool", b |-> b]
JList(l) == [t |-> "list", l |-> l]
\* The float infinity, decoded from Infinity or from a literal such as 1e999
JInf == [t |-> "float", f |-> "inf"]
JNaN == [t |-> "float", f |-> "nan"]

\* packet.get(k)
PacketGet(packet, k) == IF k \in DOMAIN packet THEN packet[k] ELSE JNull

DigitChars == <<"0", "1", "2", "3", "4", "5", "6", "7", "8", "9">>
IsDigit(c) == \E i \in 1..10 : DigitChars[i] = c
DigitVal(c) == (CHOOSE i \in 1..10 : DigitChars[i] = c) - 1

RECURSIVE DigitsToInt(_)
DigitsToInt(s) ==
    IF s = <<>> THEN 0
    ELSE 10 * DigitsToInt(SubSeq(s, 1, Len(s) - 1)) + DigitVal(s[Len(s)])

RECURSIVE IntToDigits(_)
IntToDigits(n) ==
    IF n < 10 THEN <<DigitChars[n + 1]>>
    ELSE IntToDigits(n \div 10) \o <<DigitChars[(n % 10) + 1]>>

\* str.strip(): leading and trailing blanks removed
RECURSIVE LStrip(_)
LStrip(s) == IF s # <<>> /\ Head(s) = " " THEN LStrip(Tail(s)) ELSE s
RECURSIVE RStrip(_)
RStrip(s) ==
    IF s # <<>> /\ s[Len(s)] = " " THEN RStrip(SubSeq(s, 1, Len(s) - 1)) ELSE s
Strip(s) == RStrip(LStrip(s))

\* Whether int(s) / float(s) accepts the string s (a decimal integer, with
\* blanks around it and an optional minus sign)
IsNumeral(s) ==
    LET b == Strip(s)
        d == IF b # <<>> /\ Head(b) = "-" THEN Tail(b) ELSE b
    IN  d # <<>> /\ \A i \in 1..Len(d) : IsDigit(d[i])
NumeralVal(s) ==
    LET b == Strip(s)
    IN  IF Head(b) = "-" THEN 0 - DigitsToInt(Tail(b)) ELSE DigitsToInt(b)

\* str(value) of a value that is not a string
PyStr(value) ==
    IF value.t = "int"
    THEN IF value.v < 0 THEN <<"-">> \o IntToDigits(0 - value.v) ELSE IntToDigits(value.v)
    ELSE IF value.t = "bool"
    THEN IF value.b THEN <<"T", "r", "u", "e">> ELSE <<"F", "a", "l", "s", "e">>
    ELSE IF value.t = "float"
    THEN IF value.f = "inf" THEN <<"i", "n", "f">> ELSE <<"n", "a", "n">>
    ELSE <<"[", "]">>

\* str.lower()
UpperChars == << "A", "B", "C", "D", "E", "F", "G", "H", "I", "J", "K", "L", "M",
                "N", "O", "P", "Q", "R", "S", "T", "U", "V", "W", "X", "Y", "Z" >>
LowerChars == << "a", "b", "c", "d", "e", "f", "g", "h", "i", "j", "k", "l", "m",
                "n", "o", "p", "q", "r", "s", "t", "u", "v", "w", "x", "y", "z" >>
LowerChar(c) ==
    IF \E i \in 1..26 : UpperChars[i] = c
    THEN LowerChars[CHOOSE i \in 1..26 : UpperChars[i] = c]
    ELSE c
Lower(s) == [i \in 1..Len(s) |-> LowerChar(s[i])]

(***************************************************************************)
(* sanitize_tracker_packet                                                 *)
(***************************************************************************)
\* html_tag_pattern.sub('', s) for the pattern <[^>]+> : at a "<", the match
\* runs to the first ">" after it and needs one character in between
FirstGt(s) == IF \E i \in 1..Len(s) : s[i] = ">"
              THEN CHOOSE i \in 1..Len(s) : s[i] = ">" /\ \A j \in 1..(i - 1) : s[j] # ">"
              ELSE 0
RECURSIVE html_tag_sub(_)
html_tag_sub(s) ==
    IF s = <<>> THEN <<>>
    ELSE IF Head(s) = "<" /\ FirstGt(Tail(s)) >= 2
    THEN html_tag_sub(SubSeq(Tail(s), FirstGt(Tail(s)) + 1, Len(Tail(s))))
    ELSE <<Head(s)>> \o html_tag_sub(Tail(s))

DangerousChars == {"<", ">", "&", "\"", "'"}
IsSafeChar(c) == c \notin DangerousChars

sanitize_string(value, max_length, default) ==
    LET v0 == IF value.t = "str" THEN value.s
              ELSE IF value.t = "null" THEN default ELSE PyStr(value)
        v1 == html_tag_sub(v0)
        v2 == SelectSeq(v1, IsSafeChar)
        v3 == Strip(SubSeq(v2, 1, PyMin(max_length, Len(v2))))
    IN  IF v3 = <<>> THEN default ELSE v3

\* int(value) / float(value) raise ValueError or TypeError
Unparsable(value) ==
    \/ value.t = "list"
    \/ value.t = "str" /\ ~IsNumeral(value.s)
IsNaN(value) == value.t = "float" /\ value.f = "nan"
NumberOf(value) ==
    IF value.t = "int" THEN value.v
    ELSE IF value.t = "bool" THEN (IF value.b THEN 1 ELSE 0)
    ELSE NumeralVal(value.s)
Clamp(result, min_val, max_val) ==
    LET r1 == IF min_val # None THEN PyMax(min_val[1], result) ELSE result
    IN  IF max_val # None THEN PyMin(max_val[1], r1) ELSE r1

\* int(value) raises OverflowError, which sanitize_int does not catch
int_overflows(value) == value.t = "float" /\ value.f = "inf"

\* sanitize_int of a value for which int(value) does not overflow; int(nan)
\* raises ValueError
sanitize_int(value, default, min_val, max_val) ==
    IF Unparsable(value) \/ IsNaN(value) THEN default
    ELSE Clamp(IF value.t = "null" THEN default ELSE NumberOf(value), min_val, max_val)

\* float(inf) is inf, and min(max_val, inf) is max_val (every float field
\* has one).  float(nan) is nan: max(min_val, nan) keeps its first argument
\* min_val, because nan > min_val is false, and min(max_val, min_val) is
\* min_val (every float field has one)
sanitize_float(value, default, min_val, max_val) ==
    IF Unparsable(value) THEN default
    ELSE IF IsNaN(value) THEN min_val[1]
    ELSE IF value.t = "float" THEN max_val[1]
    ELSE Clamp(IF value.t = "null" THEN default ELSE NumberOf(value), min_val, max_val)

\* sanitize_bool: a bool as it is, a string by its lower-case spelling, any
\* other value by bool(value)
Str_true == <<"t", "r", "u", "e">>
Str_one == <<"1">>
Str_yes == <<"y", "e", "s">>
sanitize_bool(value, default) ==
    IF value.t = "bool" THEN value.b
    ELSE IF value.t = "str" THEN Lower(value.s) \in {Str_true, Str_one, Str_yes}
    ELSE IF value.t = "int" THEN value.v # 0
    ELSE IF value.t = "list" THEN value.l # <<>>
    ELSE value.t = "float"

\* One entry of packet['pos']: kept when it is a list of at least three
\* values; the fourth value (speed) is kept when present
IsPosEntry(pos) == pos.t = "list" /\ Len(pos.l) >= 3
sanitize_pos_entry(pos) ==
    LET entry == << sanitize_int(pos.l[1], 0, Some(0), None),
                    sanitize_float(pos.l[2], 0, Some(-90), Some(90)),
                    sanitize_float(pos.l[3], 0, Some(-180), Some(180)) >>
    IN  IF Len(pos.l) >= 4
        THEN Append(entry, sanitize_float(pos.l[4], 0, Some(0), Some(100)))
        ELSE entry

\* The loop over the entries: the entries kept, each one sanitized
sanitize_pos_list(l) ==
    LET kept == SelectSeq(l, IsPosEntry)
    IN  [i \in 1..Len(kept) |-> sanitize_pos_entry(kept[i])]

PosLimit == 100

sanitized_pos(packet) ==
    IF "pos" \in DOMAIN packet /\ packet["pos"].t = "list"
    THEN sanitize_pos_list(SubSeq(packet["pos"].l, 1, PyMin(PosLimit, Len(packet["pos"].l))))
    ELSE <<>>

\* The fields of a report the model carries: id, role, pwd, sq, ts, eid, lat,
\* lon, ast, chg and pos.  (ver, os, hdg, bat, sig, hr, spd, bdr, hac, ps and
\* flg go through the same four helpers and are copied along with these;
\* auth_check is not among the keys the sanitizer copies.)
Str_sailor == <<"s", "a", "i", "l", "o", "r">>
Str_unknown_id == <<"?", "?", "?">>

\* Whether sanitize_tracker_packet(packet) raises: a sanitize_int of sq, ts
\* or eid, or of the timestamp of a sample of pos, overflows
sanitize_raises(packet) ==
    \/ \E k \in {"sq", "ts", "eid"} : int_overflows(PacketGet(packet, k))
    \/ /\ "pos" \in DOMAIN packet /\ packet["pos"].t = "list"
       /\ \E i \in 1..PyMin(PosLimit, Len(packet["pos"].l)) :
              IsPosEntry(packet["pos"].l[i]) /\ int_overflows(packet["pos"].l[i].l[1])

sanitize_tracker_packet(packet) ==
    LET base == [ id   |-> sanitize_string(PacketGet(packet, "id"), 32, Str_unknown_id),
                  role |-> sanitize_string(PacketGet(packet, "role"), 16, Str_sailor),
                  sq   |-> sanitize_int(PacketGet(packet, "sq"), 0, Some(0), None),
                  ts   |-> sanitize_int(PacketGet(packet, "ts"), 0, Some(0), None),
                  eid  |-> sanitize_int(PacketGet(packet, "eid"), 1, Some(1), None),
                  lat  |-> sanitize_float(PacketGet(packet, "lat"), 0, Some(-90), Some(90)),
                  lon  |-> sanitize_float(PacketGet(packet, "lon"), 0, Some(-180), Some(180)),
                  ast  |-> sanitize_bool(PacketGet(packet, "ast"), FALSE) ]
        chg  == IF "chg" \in DOMAIN packet
                THEN [k \in {"chg"} |-> sanitize_bool(packet["chg"], FALSE)]
                ELSE EmptyDict
        pwd  == IF "pwd" \in DOMAIN packet
                THEN [k \in {"pwd"} |-> sanitize_string(packet["pwd"], 64, <<>>)]
                ELSE EmptyDict
        pos  == IF sanitized_pos(packet) # <<>>
                THEN [k \in {"pos"} |-> sanitized_pos(packet)]
                ELSE EmptyDict
    IN  base @@ pwd @@ chg @@ pos

(***************************************************************************)
(* Files of one event directory.  logs maps 0 to the lines of the active   *)
(* daily log YYYY_MM_DD.jsonl and n >= 1 to the lines of its rotation .n.  *)
(* courses maps 0 to the body of course.json and n >= 1 to the body of     *)
(* course.json.n; a body is a record with its updated stamp and its marks. *)
(* current_positions.json and current_positions.tmp are records: exists;   *)
(* sailors, the sailors object of the output written last; size, the       *)
(* length of the content (0 for an empty file, 1 + the number of sailors   *)
(* for one output); whole, whether the content is exactly one output.      *)
(* failing names the writes the file system refuses at present, with an    *)
(* OSError: "snapshot", the writes of current_positions.tmp, and "log",     *)
(* the writes to the daily log.                                            *)
(***************************************************************************)
MissingPositionsFile == [exists |-> FALSE, sailors |-> EmptyDict, size |-> 0, whole |-> FALSE]
MissingUsersFile == [exists |-> FALSE, users |-> EmptyDict]
EmptyEventDir ==
    [ positions_file |-> MissingPositionsFile,
      tmp_file       |-> MissingPositionsFile,
      logs           |-> EmptyDict,
      users_file     |-> MissingUsersFile,
      courses        |-> EmptyDict,
      course_tmp     |-> None,
      failing        |-> {} ]

\* One sailor of the snapshot: the live entry with the overrides applied
display_pos(pos, override) ==
    LET name   == IF "name" \in DOMAIN override
                  THEN [k \in {"name"} |-> override["name"]] ELSE EmptyDict
        role   == IF "role" \in DOMAIN override
                  THEN [k \in {"role"} |-> override["role"]] ELSE EmptyDict
        hidden == IF "hidden" \in DOMAIN override /\ override["hidden"]
                  THEN [k \in {"hidden"} |-> TRUE] ELSE EmptyDict
    IN  name @@ role @@ hidden @@ pos

display_positions(positions, user_overrides) ==
    [sailor_id \in DOMAIN positions |->
        IF sailor_id \in DOMAIN user_overrides
        THEN display_pos(positions[sailor_id], user_overrides[sailor_id])
        ELSE positions[sailor_id]]

\* open(tmp_file, 'w'): the file is created, or emptied when it exists
open_w(file) == [exists |-> TRUE, sailors |-> EmptyDict, size |-> 0, whole |-> FALSE]
\* json.dump and the close of the file: the output goes to the start of the
\* open file, and what the file holds beyond the output's length stays
file_write(file, sailors) ==
    LET size == 1 + Cardinality(DOMAIN sailors)
    IN  IF file.size <= size
        THEN [exists |-> TRUE, sailors |-> sailors, size |-> size, whole |-> TRUE]
        ELSE [exists |-> TRUE, sailors |-> sailors, size |-> file.size, whole |-> FALSE]
\* tmp_file.rename(positions_file); the OSError of a missing tmp_file is
\* caught
rename_tmp(dsk) ==
    IF dsk.tmp_file.exists
    THEN [dsk EXCEPT !.positions_file = dsk.tmp_file, !.tmp_file = MissingPositionsFile]
    ELSE dsk

\* write_current_positions run without interruption: the output is written
\* to the .tmp file, which is renamed over positions_file (the fields
\* updated and updated_iso, the time of the write, are left out)
\* A write that goes to positions_file itself: a failed write leaves it
\* empty
write_current_positions_in_place(dsk, positions, user_overrides) ==
    IF "snapshot" \in dsk.failing
    THEN [dsk EXCEPT !.positions_file = open_w(@)]
    ELSE [dsk EXCEPT !.positions_file =
             file_write(open_w(@), display_positions(positions, user_overrides))]

\* "except OSError": a write that fails is logged and leaves the files
write_current_positions(dsk, positions, user_overrides) ==
    IF "snapshot" \in dsk.failing THEN dsk
    ELSE rename_tmp([dsk EXCEPT !.tmp_file =
                        file_write(open_w(@), display_positions(positions, user_overrides))])

\* A rotation that always takes the suffix 1
next_rotation_first(files) == 1

\* rotate_file: the smallest n >= 1 for which FILENAME.n does not exist
next_rotation(files) ==
    CHOOSE n \in 1..(Cardinality(DOMAIN files) + 1) :
        n \notin DOMAIN files /\ \A m \in 1..(n - 1) : m \in DOMAIN files
rotate_file(files) ==
    IF 0 \notin DOMAIN files THEN files
    ELSE [n \in ((DOMAIN files) \ {0}) \cup {next_rotation(files)} |->
             IF n = next_rotation(files) THEN files[0] ELSE files[n]]

\* open(log_path, 'a'): creates the file when it is missing
open_append(files) == IF 0 \in DOMAIN files THEN files ELSE DictSet(files, 0, <<>>)

\* log_fh.write or log_fh.flush raises
DailyLogger_write_raises(dsk) == "log" \in dsk.failing

\* DailyLogger.write: one line appended to the open daily log
DailyLogger_write(dsk, entry) ==
    [dsk EXCEPT !.logs = DictSet(open_append(@), 0, Append(open_append(@)[0], entry))]

\* DailyLogger.clear_today: the active log is rotated and a fresh one opened
DailyLogger_clear_today(dsk) ==
    [dsk EXCEPT !.logs = open_append(rotate_file(open_append(@)))]

(***************************************************************************)
(* find_applicable_course.  Every course file is readable and carries its  *)
(* updated stamp, so get_course_timestamp is the stamp.                    *)
(***************************************************************************)
RotationScanEnd == 100

get_course_timestamp(course) == course.updated

\* course.json, then course.json.i for i in range(1, RotationScanEnd) up to
\* the first i that is missing
course_files(files) ==
    (IF 0 \in DOMAIN files THEN {0} ELSE {})
        \cup {i \in 1..(RotationScanEnd - 1) : \A j \in 1..i : j \in DOMAIN files}

\* The result is <<n, updated>> for the file of suffix n (0 for course.json),
\* or None; max() keeps the first of equal stamps, course.json first
find_applicable_course(files, log_end_ts) ==
    LET applicable == {n \in course_files(files) :
                          get_course_timestamp(files[n]) <= log_end_ts}
        latest     == CHOOSE n \in applicable :
                          \A m \in applicable :
                              \/ get_course_timestamp(files[m]) < get_course_timestamp(files[n])
                              \/ /\ get_course_timestamp(files[m]) = get_course_timestamp(files[n])
                                 /\ n <= m
    IN  IF applicable = {} THEN None
        ELSE <<latest, get_course_timestamp(files[latest])>>

(***************************************************************************)
(* PositionTracker                                                         *)
(***************************************************************************)
\* The arguments of process_position: a is a record with the fields
\* sailor_id, lat, lon, ts, role and pos_array (<<>> when the report has none)
pos_data(a) ==
    [id |-> a.sailor_id, lat |-> a.lat, lon |-> a.lon, ts |-> a.ts, role |-> a.role]
track_entry(a) ==
    [id |-> a.sailor_id, ts |-> a.ts, lat |-> a.lat, lon |-> a.lon, role |-> a.role]
batch_entry(a) ==
    [id |-> a.sailor_id, ts |-> a.ts, pos |-> a.pos_array, role |-> a.role]

\* _load_from_file: the entry restored from one sailor of the snapshot
restored_entry(sailor_id, pos) ==
    [id |-> pos.id, lat |-> pos.lat, lon |-> pos.lon, ts |-> pos.ts, role |-> pos.role]
\* "if pos.get("ts")": the timestamp is restored when it is truthy
restores_timestamp(pos) == pos.ts # 0

PositionTracker_load_from_file(positions_file) ==
    LET sailors == IF positions_file.exists /\ positions_file.whole
                   THEN positions_file.sailors ELSE EmptyDict
        seeded  == {sailor_id \in DOMAIN sailors : restores_timestamp(sailors[sailor_id])}
    IN  [ current_positions |->
              [sailor_id \in DOMAIN sailors |-> restored_entry(sailor_id, sailors[sailor_id])],
          last_timestamp |-> [sailor_id \in seeded |-> sailors[sailor_id].ts] ]

\* A duplicate decision that lets an equal timestamp through
is_dup_strict(trk, sailor_id, ts) ==
    sailor_id \in DOMAIN trk.last_timestamp /\ ts < trk.last_timestamp[sailor_id]

\* The first locked section: the duplicate decision
is_dup(trk, sailor_id, ts) ==
    sailor_id \in DOMAIN trk.last_timestamp /\ ts <= trk.last_timestamp[sailor_id]
PositionTracker_check(trk, sailor_id, ts) ==
    IF is_dup(trk, sailor_id, ts) THEN trk
    ELSE [trk EXCEPT !.last_timestamp = DictSet(@, sailor_id, ts)]

\* The second locked section: the live-table update
PositionTracker_update(trk, a) ==
    [trk EXCEPT !.current_positions = DictSet(@, a.sailor_id, pos_data(a))]

\* _user_overrides, the module global: {} in multi-event mode
global_user_overrides == EmptyDict

\* A process_position that writes the track log line of a duplicate too
PositionTracker_process_position_logs_dup(w, a, skip_log) ==
    LET t2 == IF is_dup(w.trk, a.sailor_id, a.ts) THEN w.trk
              ELSE PositionTracker_update(PositionTracker_check(w.trk, a.sailor_id, a.ts), a)
        d1 == IF is_dup(w.trk, a.sailor_id, a.ts) THEN w.dsk
              ELSE write_current_positions(w.dsk, t2.current_positions, global_user_overrides)
        d2 == IF skip_log \/ DailyLogger_write_raises(d1) THEN d1
              ELSE DailyLogger_write(d1, track_entry(a))
    IN  [trk |-> t2, dsk |-> d2, result |-> ~is_dup(w.trk, a.sailor_id, a.ts),
         raised |-> ~skip_log /\ DailyLogger_write_raises(d1)]

\* A process_position that takes back its updates when the log write raises
PositionTracker_process_position_undone(w, a, skip_log) ==
    IF is_dup(w.trk, a.sailor_id, a.ts)
    THEN [trk |-> w.trk, dsk |-> w.dsk, result |-> FALSE, raised |-> FALSE]
    ELSE LET t2 == PositionTracker_update(PositionTracker_check(w.trk, a.sailor_id, a.ts), a)
             d1 == write_current_positions(w.dsk, t2.current_positions, global_user_overrides)
         IN  IF ~skip_log /\ DailyLogger_write_raises(d1)
             THEN [trk |-> w.trk, dsk |-> w.dsk, result |-> FALSE, raised |-> TRUE]
             ELSE [trk |-> t2,
                   dsk |-> IF skip_log THEN d1 ELSE DailyLogger_write(d1, track_entry(a)),
                   result |-> TRUE, raised |-> FALSE]

\* PositionTracker.process_position on w = [trk, dsk]; the result carries
\* the return value, or raised when daily_logger.write raised: the
\* timestamp, the live entry and the snapshot were written before it
PositionTracker_process_position(w, a, skip_log) ==
    IF is_dup(w.trk, a.sailor_id, a.ts)
    THEN [trk |-> w.trk, dsk |-> w.dsk, result |-> FALSE, raised |-> FALSE]
    ELSE LET t2 == PositionTracker_update(PositionTracker_check(w.trk, a.sailor_id, a.ts), a)
             d1 == write_current_positions(w.dsk, t2.current_positions, global_user_overrides)
         IN  IF ~skip_log /\ DailyLogger_write_raises(d1)
             THEN [trk |-> t2, dsk |-> d1, result |-> FALSE, raised |-> TRUE]
             ELSE [trk |-> t2,
                   dsk |-> IF skip_log THEN d1 ELSE DailyLogger_write(d1, track_entry(a)),
                   result |-> TRUE, raised |-> FALSE]

\* A clear that empties the live table alone
PositionTracker_clear_positions(trk) == [trk EXCEPT !.current_positions = EmptyDict]

\* PositionTracker.clear
PositionTracker_clear(trk) ==
    [trk EXCEPT !.current_positions = EmptyDict, !.last_timestamp = EmptyDict]

(***************************************************************************)
(* EventTracker                                                            *)
(***************************************************************************)
load_user_overrides(users_file) ==
    IF users_file.exists THEN users_file.users ELSE EmptyDict

\* EventTracker.__init__ on the event directory dsk
EventTracker_init(dsk) ==
    LET d0  == [dsk EXCEPT !.logs = open_append(@)]
        ov  == load_user_overrides(dsk.users_file)
        pt  == PositionTracker_load_from_file(dsk.positions_file)
        trk == [ current_positions |-> pt.current_positions,
                 last_timestamp    |-> pt.last_timestamp,
                 user_overrides    |-> ov ]
    IN  [ trk |-> trk,
          dsk |-> IF dsk.positions_file.exists THEN d0
                  ELSE write_current_positions(d0, EmptyDict, ov) ]

\* A batch test that takes two samples for a single position
has_batch_over_two(pos_array) == Len(pos_array) > 2

has_batch(pos_array) == Len(pos_array) > 1

\* EventTracker.process_position; an exception of daily_logger.write ends
\* the call where it is raised
EventTracker_process_position(w, a) ==
    LET d0 == IF has_batch(a.pos_array) THEN DailyLogger_write(w.dsk, batch_entry(a))
              ELSE w.dsk
        r  == PositionTracker_process_position([trk |-> w.trk, dsk |-> d0], a,
                                               has_batch(a.pos_array))
    IN  IF has_batch(a.pos_array) /\ DailyLogger_write_raises(w.dsk)
        THEN [trk |-> w.trk, dsk |-> w.dsk, result |-> FALSE, raised |-> TRUE]
        ELSE IF r.result
        THEN [ trk    |-> r.trk,
               dsk    |-> write_current_positions(r.dsk, r.trk.current_positions,
                                                  r.trk.user_overrides),
               result |-> TRUE,
               raised |-> FALSE ]
        ELSE r

\* EventTracker.clear_tracks
EventTracker_clear_tracks(w) ==
    LET d1 == DailyLogger_clear_today(w.dsk)
        d2 == [d1 EXCEPT !.positions_file = MissingPositionsFile]
        t1 == PositionTracker_clear(w.trk)
    IN  [trk |-> t1, dsk |-> write_current_positions(d2, EmptyDict, t1.user_overrides)]

(***************************************************************************)
(* Bounds and inputs                                                       *)
(***************************************************************************)
MaxTs == 2          \* tracker timestamps are 0..MaxTs
MaxLogLines == 2    \* reports are handled while the active log is shorter
MaxTime == 6        \* the clock stops here
MaxClears == 1      \* clear_tracks runs while there are fewer rotated logs

IpA == "10.0.0.1"
IpB == "10.0.0.2"
IdA == <<"a">>
IdB == <<"b">>

MkPacket(id, eid, ts, lat, lon) ==
    [ id |-> JStr(id), eid |-> JInt(eid), sq |-> JInt(1), ts |-> JInt(ts),
      lat |-> JInt(lat), lon |-> JInt(lon) ]
MkSample(ts, lat, lon) == JList(<<JInt(ts), JInt(lat), JInt(lon)>>)
WithPos(packet, samples) == [k \in {"pos"} |-> JList(samples)] @@ packet
WithPwd(packet, pwd) == [k \in {"pwd"} |-> JStr(pwd)] @@ packet

\* Reports to event 1.  Tracker a reports in four shapes: a single position;
\* a pos array of one sample; a pos array of two samples; a pos array of two
\* entries of which one is too short to be a sample.  With a pos array the
\* top-level ts, lat and lon differ from the last sample's.  Tracker b
\* reports one single position.
SinglePackets ==
    {MkPacket(IdA, 1, ts, 10, 30) : ts \in 0..MaxTs} \cup {MkPacket(IdB, 1, 1, 10, 30)}
Pos1Packets ==
    {WithPos(MkPacket(IdA, 1, MaxTs, 0, 0), <<MkSample(ts, 20, 30)>>) : ts \in 0..MaxTs}
Pos2Packets ==
    {WithPos(MkPacket(IdA, 1, MaxTs, 0, 0), <<MkSample(0, 5, 6), MkSample(ts, 10, 30)>>) :
        ts \in 0..MaxTs}
ShortPosPackets ==
    {WithPos(MkPacket(IdA, 1, MaxTs, 0, 0),
             <<MkSample(ts, 20, 30), JList(<<JInt(ts), JInt(20)>>)>>) : ts \in 0..MaxTs}
TrackPackets == SinglePackets \cup Pos1Packets \cup Pos2Packets \cup ShortPosPackets

\* The tracker passwords a manager stores (POST /api/manage/event and PATCH
\* store the JSON string as it is sent)
ManagerPasswords == {<<"p">>, <<"p", "<">>}

\* Reports of tracker a, with an earlier and a later timestamp, to events 1
\* and 2 and to the unknown event 3, without a pwd or with one of the
\* manager's strings
PlainPackets == {MkPacket(IdA, eid, ts, 10, 30) : eid \in 1..3, ts \in {1, 2}}
IngestPackets ==
    PlainPackets \cup {WithPwd(packet, pwd) : packet \in PlainPackets, pwd \in ManagerPasswords}
RatePackets == {packet \in IngestPackets : packet["eid"].v = 1}

\* Authentication-only reports: no lat, no lon, auth_check true; to the open
\* event 2 and, with its password, to event 1
AuthCheck(id, eid, ts) ==
    [ id |-> JStr(id), eid |-> JInt(eid), sq |-> JInt(1), ts |-> JInt(ts),
      auth_check |-> JBool(TRUE) ]
AuthCheckPackets ==
    {AuthCheck(IdA, 2, ts) : ts \in {1, 2}} \cup {WithPwd(AuthCheck(IdA, 1, 1), <<"p">>)}

AllPackets == TrackPackets \cup IngestPackets \cup AuthCheckPackets

\* Reports of tracker a to event 1 with one field of the wrong type,
\* unparsable or out of range: ts, lat, sq, eid (200 is the id of an event,
\* not an invalid value), or the timestamp or the latitude of a sample of pos
BadValues == {JStr(<<"x">>), JList(<<>>), JBool(TRUE), JInt(-5), JInt(200), JInf}
WithField(packet, k, value) == [f \in DOMAIN packet |-> IF f = k THEN value ELSE packet[f]]
FieldPackets ==
    {WithField(MkPacket(IdA, 1, 1, 10, 30), k, value) :
        k \in {"ts", "lat", "sq"}, value \in BadValues}
    \cup {WithField(MkPacket(IdA, 1, 1, 10, 30), "eid", value) :
             value \in BadValues \ {JInt(200)}}
    \cup {WithPos(MkPacket(IdA, 1, 1, 10, 30), <<JList(<<value, JInt(20), JInt(30)>>)>>) :
             value \in BadValues}
    \cup {WithPos(MkPacket(IdA, 1, 1, 10, 30), <<JList(<<JInt(1), value, JInt(30)>>)>>) :
             value \in BadValues}

\* Tracker a reports to event 1 and tracker b to event 2, both with pwd p
SharedPackets ==
    {WithPwd(MkPacket(IdA, 1, 1, 10, 30), <<"p">>), WithPwd(MkPacket(IdB, 2, 1, 10, 30), <<"p">>)}

\* sanitize_tracker_packet(packet) for every packet of the input sets,
\* computed once
SanitizedPackets ==
    [packet \in {p \in AllPackets \cup FieldPackets \cup SharedPackets : ~sanitize_raises(p)} |->
        sanitize_tracker_packet(packet)]

(***************************************************************************)
(* Rate limiter and tracker map.  S is the server state as a record:       *)
(* events, failed (_failed_auth_times), trackers (_event_trackers), disk   *)
(* and now.                                                                *)
(***************************************************************************)
RATE_LIMIT_SECONDS == 5

\* A limiter that never lets an address with a recorded failure through
is_rate_limited_for_good(S, ip) == ip \in DOMAIN S.failed

is_rate_limited(S, ip) ==
    ip \in DOMAIN S.failed /\ S.now - S.failed[ip] < RATE_LIMIT_SECONDS

record_failed_auth(S, ip) == [S EXCEPT !.failed = DictSet(@, ip, S.now)]

\* get_event_data_dir: the directory is created when it is missing
event_dir(S, eid) == IF eid \in DOMAIN S.disk THEN S.disk[eid] ELSE EmptyEventDir

\* get_event_tracker for an eid the registry holds
get_event_tracker(S, eid) ==
    IF eid \in DOMAIN S.trackers THEN S
    ELSE LET r == EventTracker_init(event_dir(S, eid))
         IN  [S EXCEPT !.trackers = DictSet(@, eid, r.trk),
                       !.disk = DictSet(@, eid, r.dsk)]

\* Report processing by a tracker that all events share
tracker_process_shared(S, eid, a) ==
    LET S1 == get_event_tracker(S, 1)
        r  == EventTracker_process_position(
                  [trk |-> S1.trackers[1], dsk |-> S1.disk[1]], a)
    IN  [ S      |-> [S1 EXCEPT !.trackers[1] = r.trk, !.disk[1] = r.dsk],
          result |-> r.result, raised |-> r.raised ]

\* The tracker of eid processes the report a
tracker_process(S, eid, a) ==
    LET S1 == get_event_tracker(S, eid)
        r  == EventTracker_process_position(
                  [trk |-> S1.trackers[eid], dsk |-> S1.disk[eid]], a)
    IN  [ S      |-> [S1 EXCEPT !.trackers[eid] = r.trk, !.disk[eid] = r.dsk],
          result |-> r.result, raised |-> r.raised ]

(***************************************************************************)
(* Ingest: the UDP loop of run_server and AdminHTTPHandler's               *)
(* _handle_tracker_post, in multi-event mode                               *)
(***************************************************************************)
\* A selection that takes the top-level ts, lat and lon of every report
report_args_top_level(sp) ==
    [ sailor_id |-> sp.id,
      role      |-> sp.role,
      pos_array |-> IF "pos" \in DOMAIN sp THEN sp["pos"] ELSE <<>>,
      lat       |-> sp.lat,
      lon       |-> sp.lon,
      ts        |-> sp.ts ]

\* The position a report selects: the last element of pos when it has one
report_args(sp) ==
    LET pos_array == IF "pos" \in DOMAIN sp THEN sp["pos"] ELSE <<>>
        last_pos  == pos_array[Len(pos_array)]
    IN  [ sailor_id |-> sp.id,
          role      |-> sp.role,
          pos_array |-> pos_array,
          lat       |-> IF pos_array # <<>> THEN last_pos[2] ELSE sp.lat,
          lon       |-> IF pos_array # <<>> THEN last_pos[3] ELSE sp.lon,
          ts        |-> IF pos_array # <<>> THEN last_pos[1] ELSE sp.ts ]

\* packet.get("pwd", "")
packet_pwd(sp) == IF "pwd" \in DOMAIN sp THEN sp["pwd"] ELSE <<>>

Reply(seq, error, msg, status) ==
    [ack |-> seq, error |-> error, msg |-> msg, status |-> status]
\* A console line: what was printed, by the UDP loop or the POST handler,
\* with the tracker, event, address, timestamp and latitude it names (0 for
\* an event, -1 for a number and "" for an address the line does not name)
Line(kind, source, sailor_id, eid, ip, ts, lat, dup) ==
    [ kind |-> kind, source |-> source, id |-> sailor_id, eid |-> eid, ip |-> ip,
      ts |-> ts, lat |-> lat, dup |-> dup ]

\* An archive test that lets every event through
is_archived_never(event) == FALSE
\* "if event.get('archived')"
is_archived(event) == event.archived
\* "if event_tracker_pwd": the event asks for a password
password_required(event) == event.tracker_password # <<>>
\* A comparison that no pwd passes
password_matches_never(sp, event) == FALSE

\* "packet_pwd != event_tracker_pwd" is false
password_matches(sp, event) == packet_pwd(sp) = event.tracker_password

\* The UDP receive loop from the sanitized packet sp on
udp_route(S, sp, client_ip) ==
    LET a   == report_args(sp)
        eid == sp.eid
    IN  IF eid \notin DOMAIN S.events
        THEN [ S |-> S, response |-> Reply(sp.sq, "event", "not found", 0),
               stdout |-> Line("not found", "UDP", sp.id, eid, "", -1, -1, FALSE) ]
        ELSE IF is_archived(S.events[eid])
        THEN [ S |-> S, response |-> Reply(sp.sq, "event", "archived", 0),
               stdout |-> Line("archived", "UDP", sp.id, eid, "", -1, -1, FALSE) ]
        ELSE IF password_required(S.events[eid]) /\ is_rate_limited(S, client_ip)
        THEN [ S |-> S, response |-> Reply(sp.sq, "auth", "Invalid password", 0),
               stdout |-> Line("rate-limited", "UDP", sp.id, 0, client_ip, -1, -1, FALSE) ]
        ELSE IF password_required(S.events[eid]) /\ ~password_matches(sp, S.events[eid])
        THEN [ S |-> record_failed_auth(S, client_ip),
               response |-> Reply(sp.sq, "auth", "Invalid password", 0),
               stdout |-> Line("auth failed", "UDP", sp.id, eid, client_ip, -1, -1, FALSE) ]
        ELSE LET r == tracker_process(S, eid, a)
             IN  IF r.raised
                 THEN [ S |-> r.S, response |-> Reply(sp.sq, "", "", 0),
                        stdout |-> Line("error", "UDP", <<>>, 0, client_ip, -1, -1, FALSE) ]
                 ELSE [ S |-> r.S, response |-> Reply(sp.sq, "", "", 0),
                        stdout |-> Line("position", "UDP", a.sailor_id, eid, client_ip, a.ts,
                                       a.lat, ~r.result) ]

\* "except Exception" of the UDP loop: the error is printed and the loop
\* goes on, with nothing sent
udp_error(S, client_ip) ==
    [ S |-> S, response |-> Reply(0, "", "none", 0),
      stdout |-> Line("error", "UDP", <<>>, 0, client_ip, -1, -1, FALSE) ]

\* One iteration of the UDP receive loop for a decoded packet
udp_handle(S, packet, client_ip) ==
    IF sanitize_raises(packet) THEN udp_error(S, client_ip)
    ELSE udp_route(S, SanitizedPackets[packet], client_ip)

\* "if packet.get("auth_check")" on the sanitized packet
is_auth_check(sp) == "auth_check" \in DOMAIN sp /\ sp["auth_check"] = TRUE

\* _handle_tracker_post from the sanitized body sp on
http_route(S, sp, client_ip) ==
    LET eid == sp.eid
    IN  IF eid \notin DOMAIN S.events
        THEN [ S |-> S, response |-> Reply(sp.sq, "event", "not found", 404),
               stdout |-> Line("not found", "POST", sp.id, eid, "", -1, -1, FALSE) ]
        ELSE IF is_archived(S.events[eid])
        THEN [ S |-> S, response |-> Reply(sp.sq, "event", "archived", 400),
               stdout |-> Line("archived", "POST", sp.id, eid, "", -1, -1, FALSE) ]
        ELSE IF password_required(S.events[eid]) /\ is_rate_limited(S, client_ip)
        THEN [ S |-> S, response |-> Reply(sp.sq, "auth", "Too many attempts", 429),
               stdout |-> Line("rate-limited", "POST", sp.id, 0, client_ip, -1, -1, FALSE) ]
        ELSE IF password_required(S.events[eid]) /\ ~password_matches(sp, S.events[eid])
        THEN [ S |-> record_failed_auth(S, client_ip),
               response |-> Reply(sp.sq, "auth", "Invalid password", 401),
               stdout |-> Line("auth failed", "POST", sp.id, eid, client_ip, -1, -1, FALSE) ]
        ELSE IF is_auth_check(sp)
        THEN [ S |-> S, response |-> Reply(sp.sq, "", "", 200),
               stdout |-> Line("checkuser", "POST", sp.id, eid, client_ip, -1, -1, FALSE) ]
        ELSE LET a == report_args(sp)
                 r == tracker_process(S, eid, a)
             IN  IF r.raised
                 THEN [ S |-> r.S, response |-> Reply(0, "OSError", "", 500),
                        stdout |-> Line("error", "POST", <<>>, 0, client_ip, -1, -1, FALSE) ]
                 ELSE [ S |-> r.S, response |-> Reply(sp.sq, "", "", 200),
                        stdout |-> Line("position", "POST", a.sailor_id, eid, client_ip, a.ts,
                                       a.lat, ~r.result) ]

\* "except Exception" of _handle_tracker_post: the error is answered with
\* status 500
http_error(S, client_ip) ==
    [ S |-> S, response |-> Reply(0, "OverflowError", "", 500),
      stdout |-> Line("error", "POST", <<>>, 0, client_ip, -1, -1, FALSE) ]

\* _handle_tracker_post for a decoded body
http_handle(S, packet, client_ip) ==
    IF sanitize_raises(packet) THEN http_error(S, client_ip)
    ELSE http_route(S, SanitizedPackets[packet], client_ip)

(***************************************************************************)
(* User overrides: POST and DELETE /api/event/EID/admin/user/USER_ID, with *)
(* the event's admin password                                              *)
(***************************************************************************)
Str_support == <<"s", "u", "p", "p", "o", "r", "t">>
Str_spectator == <<"s", "p", "e", "c", "t", "a", "t", "o", "r">>
ValidRoles == {Str_sailor, Str_support, Str_spectator}

\* The override built from the request body data
override_of(data) ==
    LET name   == IF "name" \in DOMAIN data
                  THEN [k \in {"name"} |-> data["name"]] ELSE EmptyDict
        role   == IF "role" \in DOMAIN data /\ data["role"] \in ValidRoles
                  THEN [k \in {"role"} |-> data["role"]] ELSE EmptyDict
        hidden == IF "hidden" \in DOMAIN data
                  THEN [k \in {"hidden"} |-> data["hidden"]] ELSE EmptyDict
    IN  name @@ role @@ hidden

\* save_user_overrides
save_user_overrides(dsk, overrides) ==
    [dsk EXCEPT !.users_file = [exists |-> TRUE, users |-> overrides]]

\* The overrides of the tracker of eid become overrides: they are saved and
\* the snapshot is refreshed from the live table
set_user_overrides(S, eid, overrides) ==
    [S EXCEPT !.trackers[eid].user_overrides = overrides,
              !.disk[eid] = write_current_positions(
                                save_user_overrides(@, overrides),
                                S.trackers[eid].current_positions, overrides)]

\* _handle_event_post for /admin/user/USER_ID, on the state S1 in which the
\* tracker of eid exists
post_user_override(S1, eid, user_id, override) ==
    IF override = EmptyDict
    THEN [ S |-> S1, response |-> Reply(0, "No valid fields", "", 400),
           stdout |-> Line("none", "POST", user_id, eid, "", -1, -1, FALSE) ]
    ELSE [ S |-> set_user_overrides(S1, eid,
                     DictSet(S1.trackers[eid].user_overrides, user_id, override)),
           response |-> Reply(0, "", "success", 200),
           stdout |-> Line("override set", "POST", user_id, eid, "", -1, -1, FALSE) ]

handle_event_post_user(S, eid, user_id, data) ==
    IF eid \notin DOMAIN S.events
    THEN [ S |-> S, response |-> Reply(0, "not found", "", 404),
           stdout |-> Line("none", "POST", user_id, eid, "", -1, -1, FALSE) ]
    ELSE IF S.events[eid].archived
    THEN [ S |-> S, response |-> Reply(0, "archived", "", 400),
           stdout |-> Line("none", "POST", user_id, eid, "", -1, -1, FALSE) ]
    ELSE post_user_override(get_event_tracker(S, eid), eid, user_id, override_of(data))

\* _handle_event_delete for /admin/user/USER_ID, on the state S1 in which the
\* tracker of eid exists
delete_user_override(S1, eid, user_id) ==
    IF user_id \in DOMAIN S1.trackers[eid].user_overrides
    THEN [ S |-> set_user_overrides(S1, eid,
                     DictDel(S1.trackers[eid].user_overrides, user_id)),
           response |-> Reply(0, "", "success", 200),
           stdout |-> Line("override removed", "DELETE", user_id, eid, "", -1, -1, FALSE) ]
    ELSE [ S |-> S1, response |-> Reply(0, "", "success", 200),
           stdout |-> Line("none", "DELETE", user_id, eid, "", -1, -1, FALSE) ]

handle_event_delete_user(S, eid, user_id) ==
    IF eid \notin DOMAIN S.events
    THEN [ S |-> S, response |-> Reply(0, "", "success", 200),
           stdout |-> Line("none", "DELETE", user_id, eid, "", -1, -1, FALSE) ]
    ELSE delete_user_override(get_event_tracker(S, eid), eid, user_id)

(***************************************************************************)
(* POST /api/event/EID/admin/clear-tracks, with the event's admin password *)
(***************************************************************************)
\* clear_tracks on the state S1 in which the tracker of eid exists
clear_event_tracks(S1, eid) ==
    LET r == EventTracker_clear_tracks([trk |-> S1.trackers[eid], dsk |-> S1.disk[eid]])
    IN  [ S |-> [S1 EXCEPT !.trackers[eid] = r.trk, !.disk[eid] = r.dsk],
          response |-> Reply(0, "", "tracks cleared", 200),
          stdout |-> Line("tracks cleared", "POST", <<>>, eid, "", -1, -1, FALSE) ]

handle_event_post_clear_tracks(S, eid) ==
    IF eid \notin DOMAIN S.events
    THEN [ S |-> S, response |-> Reply(0, "not found", "", 404),
           stdout |-> Line("none", "POST", <<>>, eid, "", -1, -1, FALSE) ]
    ELSE IF S.events[eid].archived
    THEN [ S |-> S, response |-> Reply(0, "archived", "", 400),
           stdout |-> Line("none", "POST", <<>>, eid, "", -1, -1, FALSE) ]
    ELSE clear_event_tracks(get_event_tracker(S, eid), eid)

(***************************************************************************)
(* Per-event admin requests: _check_event_admin_auth and the dispatch of   *)
(* _handle_event_get, _handle_event_post and _handle_event_delete.  A      *)
(* request carries the client address and its X-Admin-Password header      *)
(* (<<>> when it has none).                                                *)
(***************************************************************************)
\* An admin check that lets every password of an address that is not
\* rate-limited through
check_event_admin_auth_open(S, eid, client_ip, password) ==
    IF is_rate_limited(S, client_ip) THEN [S |-> S, ok |-> FALSE]
    ELSE IF eid \notin DOMAIN S.events THEN [S |-> S, ok |-> FALSE]
    ELSE [S |-> S, ok |-> TRUE]

\* _check_event_admin_auth: ok tells its result, S is the state it leaves
check_event_admin_auth(S, eid, client_ip, password) ==
    IF is_rate_limited(S, client_ip) THEN [S |-> S, ok |-> FALSE]
    ELSE IF eid \notin DOMAIN S.events THEN [S |-> S, ok |-> FALSE]
    ELSE IF password # S.events[eid].admin_password
    THEN [S |-> record_failed_auth(S, client_ip), ok |-> FALSE]
    ELSE [S |-> S, ok |-> TRUE]

\* The answer {"error": "Unauthorized"}, 401
unauthorized(S, method, eid, client_ip) ==
    [ S |-> S, response |-> Reply(0, "Unauthorized", "", 401),
      stdout |-> Line("admin auth failed", method, <<>>, eid, client_ip, -1, -1, FALSE) ]

\* A course file: its updated stamp, and no marks
Course(updated) == [updated |-> updated, marks |-> 0]

\* _handle_event_post for /admin/course on the state S1 in which the tracker
\* of eid exists: the course in place is rotated and the new one, stamped
\* with the time, is written to the temporary file and renamed
post_course(S1, eid) ==
    [ S |-> [S1 EXCEPT !.disk[eid].courses =
                           DictSet(rotate_file(@), 0, Course(S1.now)),
                       !.disk[eid].course_tmp = None],
      response |-> Reply(0, "", "success", 200),
      stdout |-> Line("course saved", "POST", <<>>, eid, "", -1, -1, FALSE) ]

\* _handle_event_delete for /admin/course on the state S1 in which the
\* tracker of eid exists
delete_course(S1, eid) ==
    IF 0 \in DOMAIN S1.disk[eid].courses
    THEN [ S |-> [S1 EXCEPT !.disk[eid].courses = rotate_file(@)],
           response |-> Reply(0, "", "success", 200),
           stdout |-> Line("course deleted", "DELETE", <<>>, eid, "", -1, -1, FALSE) ]
    ELSE [ S |-> S1, response |-> Reply(0, "", "success", 200),
           stdout |-> Line("none", "DELETE", <<>>, eid, "", -1, -1, FALSE) ]

\* _handle_event_get for /users on the state S1 in which the tracker of eid
\* exists: the answer carries the overrides
get_users(S1, eid) ==
    [ S |-> S1, response |-> Reply(0, "", "users", 200),
      stdout |-> Line("users", "GET", <<>>, eid, "", -1, -1, FALSE) ]

\* The admin operations: what each does once the request is let through
AdminPosts == {"clear-tracks", "course", "user"}
AdminDeletes == {"course", "user"}
admin_post(S, eid, op, user_id, data) ==
    IF op = "clear-tracks" THEN clear_event_tracks(get_event_tracker(S, eid), eid)
    ELSE IF op = "course" THEN post_course(get_event_tracker(S, eid), eid)
    ELSE post_user_override(get_event_tracker(S, eid), eid, user_id, override_of(data))
admin_delete(S, eid, op, user_id) ==
    IF op = "course" THEN delete_course(get_event_tracker(S, eid), eid)
    ELSE delete_user_override(get_event_tracker(S, eid), eid, user_id)

\* _handle_event_post for the admin paths
handle_event_post(S, eid, op, user_id, data, client_ip, password) ==
    LET auth == check_event_admin_auth(S, eid, client_ip, password)
    IN  IF eid \notin DOMAIN S.events
        THEN [ S |-> S, response |-> Reply(0, "not found", "", 404),
               stdout |-> Line("none", "POST", <<>>, eid, client_ip, -1, -1, FALSE) ]
        ELSE IF S.events[eid].archived
        THEN [ S |-> S, response |-> Reply(0, "archived", "", 400),
               stdout |-> Line("none", "POST", <<>>, eid, client_ip, -1, -1, FALSE) ]
        ELSE IF ~auth.ok THEN unauthorized(auth.S, "POST", eid, client_ip)
        ELSE admin_post(S, eid, op, user_id, data)

\* _handle_event_delete for the admin paths
handle_event_delete(S, eid, op, user_id, client_ip, password) ==
    LET auth == check_event_admin_auth(S, eid, client_ip, password)
    IN  IF ~auth.ok THEN unauthorized(auth.S, "DELETE", eid, client_ip)
        ELSE admin_delete(S, eid, op, user_id)

\* _handle_event_get for /users
handle_event_get_users(S, eid, client_ip, password) ==
    LET auth == check_event_admin_auth(S, eid, client_ip, password)
    IN  IF eid \notin DOMAIN S.events
        THEN [ S |-> S, response |-> Reply(0, "not found", "", 404),
               stdout |-> Line("none", "GET", <<>>, eid, client_ip, -1, -1, FALSE) ]
        ELSE IF ~auth.ok THEN unauthorized(auth.S, "GET", eid, client_ip)
        ELSE get_users(get_event_tracker(S, eid), eid)

\* A manager check that does not ask the rate limiter
check_manager_auth_unlimited(S, manager_password, client_ip, password) ==
    IF password # manager_password
    THEN [S |-> record_failed_auth(S, client_ip), ok |-> FALSE]
    ELSE [S |-> S, ok |-> TRUE]

\* _check_manager_auth against the manager password of the registry
check_manager_auth(S, manager_password, client_ip, password) ==
    IF is_rate_limited(S, client_ip) THEN [S |-> S, ok |-> FALSE]
    ELSE IF password # manager_password
    THEN [S |-> record_failed_auth(S, client_ip), ok |-> FALSE]
    ELSE [S |-> S, ok |-> TRUE]

\* GET /api/manage/events
handle_manage_events(S, manager_password, client_ip, password) ==
    LET auth == check_manager_auth(S, manager_password, client_ip, password)
    IN  IF ~auth.ok
        THEN [ S |-> auth.S, response |-> Reply(0, "Unauthorized", "", 401),
               stdout |-> Line("manager auth failed", "GET", <<>>, 0, client_ip, -1, -1, FALSE) ]
        ELSE [ S |-> S, response |-> Reply(0, "", "events", 200),
               stdout |-> Line("none", "GET", <<>>, 0, client_ip, -1, -1, FALSE) ]

(***************************************************************************)
(* EventManager                                                            *)
(***************************************************************************)
allowed_fields == {"archived", "admin_password", "tracker_password", "timezone"}

\* An update that takes every key of updates
taken_all(updates) == DOMAIN updates

\* The keys of updates that update_event takes
taken(updates) == allowed_fields \cap DOMAIN updates

\* update_event at the time stamp: the allow-listed keys of updates are
\* taken and the event is stamped (updated_iso is the same time as a string)
EventManager_update_event(evs, eid, updates, stamp) ==
    IF eid \notin DOMAIN evs THEN evs
    ELSE [evs EXCEPT ![eid] =
             [f \in DOMAIN @ \cup taken(updates) \cup {"updated"} |->
                 IF f = "updated" THEN stamp
                 ELSE IF f \in taken(updates) THEN updates[f] ELSE @[f]]]

\* events.json: absent, or the output of the last _save_events that succeeded
MissingEventsFile ==
    [exists |-> FALSE, next_eid |-> 1, manager_password |-> <<>>, events |-> EmptyDict]

\* A save that writes events.json in place: a failed write leaves it
\* without content
EventManager_save_events_in_place(M, ok) ==
    IF ok
    THEN [M EXCEPT !.events_file =
             [ exists |-> TRUE, next_eid |-> M.next_eid,
               manager_password |-> M.manager_password, events |-> M.events ]]
    ELSE [M EXCEPT !.events_file =
             [ exists |-> TRUE, next_eid |-> 1, manager_password |-> <<>>,
               events |-> EmptyDict ]]

\* _save_events of the manager M = [events, next_eid, manager_password,
\* events_file]; a failed write is logged and leaves events.json as it was
EventManager_save_events(M, ok) ==
    IF ok
    THEN [M EXCEPT !.events_file =
             [ exists |-> TRUE, next_eid |-> M.next_eid,
               manager_password |-> M.manager_password, events |-> M.events ]]
    ELSE M

\* EventManager.__init__ with _load_events, then run_server's
\* "_event_manager.manager_password = manager_password"
EventManager_load_events(events_file, manager_password) ==
    [ events           |-> IF events_file.exists THEN events_file.events ELSE EmptyDict,
      next_eid         |-> IF events_file.exists THEN events_file.next_eid ELSE 1,
      manager_password |-> manager_password,
      events_file      |-> events_file ]

\* create_event for the new event's record; the result carries the id returned
EventManager_create_event(M, event, ok) ==
    [ M   |-> EventManager_save_events(
                  [M EXCEPT !.events = DictSet(@, M.next_eid, event),
                            !.next_eid = @ + 1], ok),
      eid |-> M.next_eid ]

\* get_public_events / get_all_events: the eids listed
get_public_events(evs) == {eid \in DOMAIN evs : ~evs[eid].archived}
get_all_events(evs) == DOMAIN evs

(***************************************************************************)
(* Actions: one handler runs to completion                                 *)
(***************************************************************************)
St == [ events |-> events, failed |-> failed_auth_times, trackers |-> event_trackers,
        disk |-> disk, now |-> now ]

\* The EventManager and the registry that is saved with no event lost
Manager ==
    [ events |-> events, next_eid |-> registry.next_eid,
      manager_password |-> registry.manager_password, events_file |-> registry.events_file ]
RegistryOf(M) ==
    [next_eid |-> M.next_eid, manager_password |-> M.manager_password,
     events_file |-> M.events_file]
ManagerPassword == <<"m">>
Installed(evs) ==
    RegistryOf(EventManager_save_events(
        [ events |-> evs, next_eid |-> Cardinality(DOMAIN evs) + 1,
          manager_password |-> ManagerPassword, events_file |-> MissingEventsFile ], TRUE))

Commit(r) ==
    /\ stdout' = r.stdout
    /\ response' = r.response
    /\ events' = r.S.events
    /\ failed_auth_times' = r.S.failed
    /\ event_trackers' = r.S.trackers
    /\ disk' = r.S.disk
    /\ UNCHANGED <<registry, now, pc, loc>>

\* No active log is longer than MaxLogLines
LogFits(dsk) ==
    \A eid \in DOMAIN dsk :
        0 \in DOMAIN dsk[eid].logs => Len(dsk[eid].logs[0]) <= MaxLogLines

\* The handler's result r becomes the next state, while the logs fit
Handled(r) ==
    /\ LogFits(r.S.disk)
    /\ Commit(r)

UdpReport(packet, ip) == Handled(udp_handle(St, packet, ip))

HttpReport(packet, ip) == Handled(http_handle(St, packet, ip))

\* The server stops and starts again: the registry and the files stay, the
\* tracker map and the rate-limit table are new
Restart ==
    /\ events' = EventManager_load_events(registry.events_file, ManagerPassword).events
    /\ registry' = RegistryOf(EventManager_load_events(registry.events_file, ManagerPassword))
    /\ event_trackers' = EmptyDict
    /\ failed_auth_times' = EmptyDict
    /\ response' = Reply(0, "", "none", 0)
    /\ stdout' = Line("startup", "", <<>>, 0, "", -1, -1, FALSE)
    /\ UNCHANGED <<disk, now, pc, loc>>

NoThreads == EmptyDict

OpenEvent ==
    [ archived |-> FALSE, tracker_password |-> <<>>, admin_password |-> <<"x">>,
      timezone |-> 0, created |-> 0 ]

\* A fresh installation with event 1 in the registry
InitTrack ==
    /\ events = [eid \in {1} |-> OpenEvent]
    /\ registry = Installed(events)
    /\ failed_auth_times = EmptyDict
    /\ event_trackers = EmptyDict
    /\ disk = [eid \in {1} |-> EmptyEventDir]
    /\ now = 0
    /\ response = Reply(0, "", "none", 0)
    /\ stdout = Line("startup", "", <<>>, 0, "", -1, -1, FALSE)
    /\ pc = NoThreads
    /\ loc = NoThreads

NextTrack ==
    \/ \E packet \in TrackPackets : UdpReport(packet, IpA)
    \/ \E packet \in TrackPackets : HttpReport(packet, IpA)

\* Reports to one event, one at a time
SpecTrack == InitTrack /\ [][NextTrack]_vars

\* The same for single positions while the file system refuses the writes
\* of the snapshot, or those of the log, from time to time
SetFailing(kinds) ==
    /\ disk' = [disk EXCEPT ![1].failing = kinds]
    /\ UNCHANGED <<events, registry, failed_auth_times, event_trackers, now, response, stdout,
                   pc, loc>>
NextSnapFault ==
    \/ \E packet \in SinglePackets : UdpReport(packet, IpA)
    \/ \E packet \in SinglePackets : HttpReport(packet, IpA)
    \/ \E kinds \in SUBSET {"snapshot"} : SetFailing(kinds)
SpecSnapFault == InitTrack /\ [][NextSnapFault]_vars
NextLogFault ==
    \/ \E packet \in SinglePackets : UdpReport(packet, IpA)
    \/ \E packet \in SinglePackets : HttpReport(packet, IpA)
    \/ \E kinds \in SUBSET {"log"} : SetFailing(kinds)
SpecLogFault == InitTrack /\ [][NextLogFault]_vars

NextRestart ==
    \/ NextTrack
    \/ Restart

\* Reports to one event, with server restarts
SpecRestart == InitTrack /\ [][NextRestart]_vars

\* EventManager.update_event, called by the manager's PATCH; ok tells
\* whether _save_events can write
UpdateEventSave(eid, updates, ok) ==
    /\ events' = EventManager_update_event(events, eid, updates, now)
    /\ registry' = IF eid \in DOMAIN events
                   THEN RegistryOf(EventManager_save_events(
                            [Manager EXCEPT !.events = events'], ok))
                   ELSE registry
    /\ response' = IF eid \in DOMAIN events
                   THEN Reply(eid, "", "success", 200)
                   ELSE Reply(eid, "not found", "", 404)
    /\ stdout' = IF eid \in DOMAIN events
                 THEN Line("updated", "PATCH", <<>>, eid, "", -1, -1, FALSE)
                 ELSE stdout
    /\ UNCHANGED <<failed_auth_times, event_trackers, disk, now, pc, loc>>

UpdateEvent(eid, updates) == UpdateEventSave(eid, updates, TRUE)

\* A second passes
Tick ==
    /\ now < MaxTime
    /\ now' = now + 1
    /\ UNCHANGED <<events, registry, failed_auth_times, event_trackers, disk, response, stdout, pc, loc>>

ProtectedEvent(pwd) ==
    [ archived |-> FALSE, tracker_password |-> pwd, admin_password |-> <<"x">>,
      timezone |-> 0, created |-> 0 ]

\* A fresh installation with two events; event 1 asks for a tracker password
Init ==
    /\ \E pwd \in ManagerPasswords :
          events = [eid \in {1, 2} |-> IF eid = 1 THEN ProtectedEvent(pwd) ELSE OpenEvent]
    /\ registry = Installed(events)
    /\ failed_auth_times = EmptyDict
    /\ event_trackers = EmptyDict
    /\ disk = [eid \in {1, 2} |-> EmptyEventDir]
    /\ now = 0
    /\ response = Reply(0, "", "none", 0)
    /\ stdout = Line("startup", "", <<>>, 0, "", -1, -1, FALSE)
    /\ pc = NoThreads
    /\ loc = NoThreads

Next ==
    \/ \E packet \in IngestPackets : UdpReport(packet, IpA)
    \/ \E packet \in IngestPackets : HttpReport(packet, IpA)
    \/ \E archived \in BOOLEAN : UpdateEvent(1, [archived |-> archived])

\* The ingest router over two events
Spec == Init /\ [][Next]_vars

NextAuth ==
    \/ \E packet \in PlainPackets \cup AuthCheckPackets : UdpReport(packet, IpA)
    \/ \E packet \in PlainPackets \cup AuthCheckPackets : HttpReport(packet, IpA)

\* The ingest router with authentication-only reports
SpecAuth == Init /\ [][NextAuth]_vars

InitRate ==
    /\ \E pwd \in ManagerPasswords : events = [eid \in {1} |-> ProtectedEvent(pwd)]
    /\ registry = Installed(events)
    /\ failed_auth_times = EmptyDict
    /\ event_trackers = EmptyDict
    /\ disk = [eid \in {1} |-> EmptyEventDir]
    /\ now = 0
    /\ response = Reply(0, "", "none", 0)
    /\ stdout = Line("startup", "", <<>>, 0, "", -1, -1, FALSE)
    /\ pc = NoThreads
    /\ loc = NoThreads

NextRate ==
    \/ \E packet \in RatePackets, ip \in {IpA, IpB} : UdpReport(packet, ip)
    \/ \E packet \in RatePackets, ip \in {IpA, IpB} : HttpReport(packet, ip)
    \/ Tick

\* One password-protected event, two client addresses and the clock
SpecRate == InitRate /\ [][NextRate]_vars

(***************************************************************************)
(* The event registry: the manager creates and updates events, a write of  *)
(* events.json can fail, and the server restarts                           *)
(***************************************************************************)
MaxEvents == 3          \* events are created while next_eid is at most this

\* POST /api/manage/event: create_event, with the event directory ensured;
\* the eid field of the response is in ack
CreateEvent(event, ok) ==
    /\ registry.next_eid <= MaxEvents
    /\ LET r == EventManager_create_event(Manager, event, ok)
       IN  /\ events' = r.M.events
           /\ registry' = RegistryOf(r.M)
           /\ disk' = DictSet(disk, r.eid, event_dir(St, r.eid))
           /\ response' = Reply(r.eid, "", "created", 200)
           /\ stdout' = Line("created", "", <<>>, r.eid, "", -1, -1, FALSE)
    /\ UNCHANGED <<failed_auth_times, event_trackers, now, pc, loc>>

NextRegistry ==
    \/ \E pwd \in ManagerPasswords, ok \in BOOLEAN : CreateEvent(ProtectedEvent(pwd), ok)
    \/ \E eid \in 1..MaxEvents, archived \in BOOLEAN, ok \in BOOLEAN :
          UpdateEventSave(eid, [archived |-> archived], ok)
    \/ Restart

\* The registry from a fresh installation with event 1
SpecRegistry == InitTrack /\ [][NextRegistry]_vars

\* The same while the server keeps running
NextPersist ==
    \/ \E ok \in BOOLEAN : CreateEvent(ProtectedEvent(<<"p">>), ok)
    \/ \E eid \in 1..MaxEvents, archived \in BOOLEAN, ok \in BOOLEAN :
          UpdateEventSave(eid, [archived |-> archived], ok)
SpecPersist == InitTrack /\ [][NextPersist]_vars

(***************************************************************************)
(* User overrides are set and removed while trackers a and b report to     *)
(* event 1 and the server restarts                                         *)
(***************************************************************************)
\* The bodies an admin posts: a role; a name with the hidden flag; a name
\* alone; a role that is not one of the three
OverrideData ==
    { [role |-> Str_support],
      [name |-> <<"n">>, hidden |-> TRUE],
      [name |-> <<"n">>],
      [role |-> <<"x">>] }

PostUserOverride(eid, user_id, data) ==
    Handled(handle_event_post_user(St, eid, user_id, data))

DeleteUserOverride(eid, user_id) ==
    Handled(handle_event_delete_user(St, eid, user_id))

NextOverride ==
    \/ \E packet \in SinglePackets : UdpReport(packet, IpA)
    \/ \E user_id \in {IdA, IdB}, data \in OverrideData : PostUserOverride(1, user_id, data)
    \/ \E user_id \in {IdA, IdB} : DeleteUserOverride(1, user_id)
    \/ Restart

SpecOverride == InitTrack /\ [][NextOverride]_vars

(***************************************************************************)
(* The summary generator resolves the course of a log segment.  The course *)
(* files of event 1 are: any one to three files with stamps up to          *)
(* MaxStamp, with or without course.json; or course.json over n rotations  *)
(* saved one tick apart, for n up to MaxCourses and for n = RotationScanEnd*)
(***************************************************************************)
MaxStamp == 2           \* updated stamps of the small directories
MaxCourses == 2         \* rotations of the small directories

SavedInTurn(n) == [i \in 0..n |-> Course(IF i = 0 THEN n + 1 ELSE i)]
CourseDirs ==
    UNION {[D -> {Course(t) : t \in 0..MaxStamp}] :
              D \in {0..n : n \in 0..MaxCourses} \cup {1..n : n \in 0..MaxCourses}}
        \cup {SavedInTurn(n) : n \in 0..MaxCourses} \cup {SavedInTurn(RotationScanEnd)}
SegmentEnds == 0..(MaxStamp + 1) \cup {RotationScanEnd - 1, RotationScanEnd}

\* generate_log_summaries: the course of a segment that ends at end_ts
Summarize(end_ts) ==
    /\ loc' = [loc EXCEPT !["summary"] =
                  [ done |-> TRUE, end_ts |-> end_ts,
                    course |-> find_applicable_course(disk[1].courses, end_ts) ]]
    /\ UNCHANGED <<events, registry, failed_auth_times, event_trackers, disk, now, response,
                   stdout, pc>>

InitCourse ==
    /\ events = [eid \in {1} |-> OpenEvent]
    /\ registry = Installed(events)
    /\ failed_auth_times = EmptyDict
    /\ event_trackers = EmptyDict
    /\ \E files \in CourseDirs : disk = [eid \in {1} |-> [EmptyEventDir EXCEPT !.courses = files]]
    /\ now = 0
    /\ response = Reply(0, "", "none", 0)
    /\ stdout = Line("startup", "", <<>>, 0, "", -1, -1, FALSE)
    /\ pc = [t \in {"summary"} |-> "loop"]
    /\ loc = [t \in {"summary"} |-> [done |-> FALSE, end_ts |-> 0, course |-> None]]

NextCourse == \E end_ts \in SegmentEnds : Summarize(end_ts)

\* Summaries over a directory of course files
SpecCourse == InitCourse /\ [][NextCourse]_vars

(***************************************************************************)
(* rotate_file and the daily logger on the log directory of event 1        *)
(***************************************************************************)
MaxRotations == 3       \* rotate_file runs while there are fewer rotated files

\* rotate_file(P) on the active log P, which may be missing; the line
\* "Rotated P -> P.n" names n in its ts field
RotateFile ==
    /\ Cardinality(DOMAIN disk[1].logs \ {0}) < MaxRotations
    /\ disk' = [disk EXCEPT ![1].logs = rotate_file(@)]
    /\ stdout' = IF 0 \in DOMAIN disk[1].logs
                 THEN Line("rotated", "", <<>>, 0, "", next_rotation(disk[1].logs), -1, FALSE)
                 ELSE stdout
    /\ UNCHANGED <<events, registry, failed_auth_times, event_trackers, now, response, pc, loc>>

\* DailyLogger.write of one track line
LogWrite(packet) ==
    /\ Len(open_append(disk[1].logs)[0]) < MaxLogLines
    /\ disk' = [disk EXCEPT ![1] =
                    DailyLogger_write(@, track_entry(report_args(SanitizedPackets[packet])))]
    /\ UNCHANGED <<events, registry, failed_auth_times, event_trackers, now, response, stdout, pc, loc>>

\* DailyLogger.clear_today
LoggerClear ==
    /\ Cardinality(DOMAIN disk[1].logs \ {0}) < MaxRotations
    /\ disk' = [disk EXCEPT ![1] = DailyLogger_clear_today(@)]
    /\ stdout' = Line("rotated", "", <<>>, 0, "", next_rotation(open_append(disk[1].logs)),
                      -1, FALSE)
    /\ UNCHANGED <<events, registry, failed_auth_times, event_trackers, now, response, pc, loc>>

NextRotate ==
    \/ RotateFile
    \/ \E packet \in SinglePackets : packet["ts"].v = 1 /\ LogWrite(packet)
    \/ LoggerClear

\* Rotations of one path, recreated by the logger in between
SpecRotate == InitTrack /\ [][NextRotate]_vars

(***************************************************************************)
(* The tracks of event 1 are cleared between reports                       *)
(***************************************************************************)
MaxTrackClears == 2     \* clear-tracks runs while there are fewer rotated logs

\* Tracker a reports its earliest and its latest timestamp, tracker b its one
ClearPackets ==
    {MkPacket(IdA, 1, 0, 10, 30), MkPacket(IdA, 1, MaxTs, 10, 30), MkPacket(IdB, 1, 1, 10, 30)}

ClearTracks(eid) ==
    /\ Cardinality(DOMAIN disk[eid].logs \ {0}) < MaxTrackClears
    /\ Handled(handle_event_post_clear_tracks(St, eid))

NextClear ==
    \/ \E packet \in ClearPackets : UdpReport(packet, IpA)
    \/ ClearTracks(1)

SpecClear == InitTrack /\ [][NextClear]_vars

(***************************************************************************)
(* Admin requests to event 1, to the archived event 2 and to the unknown   *)
(* event 3, with the right and a wrong X-Admin-Password                    *)
(***************************************************************************)
AdminEids == {1, 2, 3}
MaxAdminRotations == 1  \* admin requests run while there are fewer rotations
AdminPasswords == {<<"x">>, <<"y">>}
AdminData == {[role |-> Str_support]}

\* The rotations of the event's logs and courses stay within the bounds
AdminFits(eid) ==
    eid \in DOMAIN disk =>
        /\ Cardinality(DOMAIN disk[eid].logs \ {0}) < MaxAdminRotations
        /\ Cardinality(DOMAIN disk[eid].courses \ {0}) < MaxAdminRotations

AdminPost(eid, op, data, client_ip, password) ==
    /\ AdminFits(eid)
    /\ Handled(handle_event_post(St, eid, op, IdA, data, client_ip, password))

AdminDelete(eid, op, client_ip, password) ==
    /\ AdminFits(eid)
    /\ Handled(handle_event_delete(St, eid, op, IdA, client_ip, password))

AdminGetUsers(eid, client_ip, password) ==
    Handled(handle_event_get_users(St, eid, client_ip, password))

\* One admin request, by its method and path
AdminRequest(method, eid, op, client_ip, password) ==
    \/ /\ method = "POST" /\ op \in AdminPosts
       /\ \E data \in AdminData : AdminPost(eid, op, data, client_ip, password)
    \/ /\ method = "DELETE" /\ op \in AdminDeletes
       /\ AdminDelete(eid, op, client_ip, password)
    \/ /\ method = "GET" /\ op = "users"
       /\ AdminGetUsers(eid, client_ip, password)

\* The time passes while the address waits for its rate limit to end
AdminWait ==
    /\ IpA \in DOMAIN failed_auth_times
    /\ now < failed_auth_times[IpA] + RATE_LIMIT_SECONDS
    /\ Tick

AdminRoutes ==
    {<<"POST", op>> : op \in AdminPosts} \cup {<<"DELETE", op>> : op \in AdminDeletes}
        \cup {<<"GET", "users">>}

InitAdmin ==
    /\ events = [eid \in {1, 2} |->
                    IF eid = 1 THEN OpenEvent ELSE [OpenEvent EXCEPT !.archived = TRUE]]
    /\ registry = Installed(events)
    /\ failed_auth_times = EmptyDict
    /\ event_trackers = EmptyDict
    /\ disk = [eid \in {1, 2} |-> EmptyEventDir]
    /\ now = 0
    /\ response = Reply(0, "", "none", 0)
    /\ stdout = Line("startup", "", <<>>, 0, "", -1, -1, FALSE)
    /\ pc = NoThreads
    /\ loc = NoThreads

NextAdmin ==
    \/ \E route \in AdminRoutes, eid \in AdminEids, password \in AdminPasswords :
          AdminRequest(route[1], eid, route[2], IpA, password)
    \/ AdminWait

SpecAdmin == InitAdmin /\ [][NextAdmin]_vars

(***************************************************************************)
(* Tracker reports, admin requests and manager requests of one address and *)
(* tracker reports of a second.                                            *)
(* Events 1 and 2 ask for a tracker password; tracker a reports to event 1 *)
(* with a pwd that is not the event's, tracker b to event 2 with the       *)
(* event's.                                                                *)
(***************************************************************************)
SentManagerPasswords == {ManagerPassword, <<"n">>}

ManageEvents(client_ip, password) ==
    Handled(handle_manage_events(St, registry.manager_password, client_ip, password))

InitShared ==
    /\ events = [eid \in {1, 2} |-> ProtectedEvent(IF eid = 1 THEN <<"q">> ELSE <<"p">>)]
    /\ registry = Installed(events)
    /\ failed_auth_times = EmptyDict
    /\ event_trackers = EmptyDict
    /\ disk = [eid \in {1, 2} |-> EmptyEventDir]
    /\ now = 0
    /\ response = Reply(0, "", "none", 0)
    /\ stdout = Line("startup", "", <<>>, 0, "", -1, -1, FALSE)
    /\ pc = NoThreads
    /\ loc = NoThreads

NextShared ==
    \/ \E packet \in SharedPackets, ip \in {IpA, IpB} : UdpReport(packet, ip)
    \/ \E packet \in SharedPackets : HttpReport(packet, IpA)
    \/ \E eid \in {1, 2}, password \in AdminPasswords : AdminGetUsers(eid, IpA, password)
    \/ \E password \in SentManagerPasswords : ManageEvents(IpA, password)
    \/ Tick

SpecShared == InitShared /\ [][NextShared]_vars

(***************************************************************************)
(* Course saves: POST /api/event/1/admin/course on handler threads of the  *)
(* ThreadingHTTPServer.  loc[t] holds the stamped course of thread t, the  *)
(* suffix n that rotate_file chose and the status it answered with;        *)
(* loc["saves"] records the saves begun, the courses of the saves answered *)
(* with success, in the order of the answers, whether a save was answered  *)
(* with an error and whether a save began while another ran.  course_tmp   *)
(* is course.tmp: None when missing.  A step is one file system call, the  *)
(* scan of rotate_file or the open, dump and close of course.tmp.          *)
(***************************************************************************)
MaxSaves == 3           \* courses are posted while fewer were
SaveThreads == {"save1", "save2"}
NoSaves == [begun |-> 0, completed |-> <<>>, failed |-> FALSE, overlapped |-> FALSE]
IdleSave == [course |-> Course(0), n |-> 0, status |-> 0]

\* course['updated'] = time.time(); the marks tell the posted bodies apart
SaveBegin(t) ==
    /\ pc[t] = "idle"
    /\ loc["saves"].begun < MaxSaves
    /\ loc' = [loc EXCEPT ![t] = [ course |-> [updated |-> now,
                                                marks |-> loc["saves"].begun + 1],
                                   n |-> 0, status |-> 0 ],
                          !["saves"].begun = @ + 1,
                          !["saves"].overlapped = @ \/ \E u \in SaveThreads : pc[u] # "idle"]
    /\ pc' = [pc EXCEPT ![t] = "exists"]
    /\ UNCHANGED <<events, registry, failed_auth_times, event_trackers, disk, now, response,
                   stdout>>

\* "if tracker.course_file.exists()"
SaveExists(t) ==
    /\ pc[t] = "exists"
    /\ pc' = [pc EXCEPT ![t] = IF 0 \in DOMAIN disk[1].courses THEN "rotate" ELSE "write"]
    /\ UNCHANGED <<events, registry, failed_auth_times, event_trackers, disk, now, response,
                   stdout, loc>>

\* rotate_file up to the rename: the path is tested and the first free
\* suffix is found
SaveRotateScan(t) ==
    /\ pc[t] = "rotate"
    /\ loc' = IF 0 \in DOMAIN disk[1].courses
              THEN [loc EXCEPT ![t].n = next_rotation(disk[1].courses)]
              ELSE loc
    /\ pc' = [pc EXCEPT ![t] = IF 0 \in DOMAIN disk[1].courses THEN "rename" ELSE "write"]
    /\ UNCHANGED <<events, registry, failed_auth_times, event_trackers, disk, now, response,
                   stdout>>

\* filepath.rename(new_path): a file at new_path is replaced; with filepath
\* missing the FileNotFoundError is answered with status 500
SaveRotateRename(t) ==
    /\ pc[t] = "rename"
    /\ IF 0 \in DOMAIN disk[1].courses
       THEN /\ disk' = [disk EXCEPT ![1].courses =
                           [k \in (DOMAIN @ \ {0}) \cup {loc[t].n} |->
                               IF k = loc[t].n THEN @[0] ELSE @[k]]]
            /\ stdout' = Line("rotated", "", <<>>, 1, "", loc[t].n, -1, FALSE)
            /\ pc' = [pc EXCEPT ![t] = "write"]
            /\ UNCHANGED <<loc, response>>
       ELSE /\ loc' = [loc EXCEPT ![t] = IdleSave, !["saves"].failed = TRUE]
            /\ response' = Reply(0, "FileNotFoundError", "", 500)
            /\ pc' = [pc EXCEPT ![t] = "idle"]
            /\ UNCHANGED <<disk, stdout>>
    /\ UNCHANGED <<events, registry, failed_auth_times, event_trackers, now>>

\* open(tmp_file, 'w'), json.dump and the close
SaveWriteTmp(t) ==
    /\ pc[t] = "write"
    /\ disk' = [disk EXCEPT ![1].course_tmp = Some(loc[t].course)]
    /\ pc' = [pc EXCEPT ![t] = "rename_tmp"]
    /\ UNCHANGED <<events, registry, failed_auth_times, event_trackers, now, response,
                   stdout, loc>>

\* tmp_file.rename(tracker.course_file) and the answer
SaveRenameTmp(t) ==
    /\ pc[t] = "rename_tmp"
    /\ IF disk[1].course_tmp # None
       THEN /\ disk' = [disk EXCEPT ![1].courses = DictSet(@, 0, disk[1].course_tmp[1]),
                                    ![1].course_tmp = None]
            /\ loc' = [loc EXCEPT ![t] = IdleSave,
                                  !["saves"].completed = Append(@, loc[t].course)]
            /\ response' = Reply(0, "", "success", 200)
            /\ stdout' = Line("course saved", "POST", <<>>, 1, "", loc[t].course.marks, -1,
                              FALSE)
       ELSE /\ loc' = [loc EXCEPT ![t] = IdleSave, !["saves"].failed = TRUE]
            /\ response' = Reply(0, "FileNotFoundError", "", 500)
            /\ UNCHANGED <<disk, stdout>>
    /\ pc' = [pc EXCEPT ![t] = "idle"]
    /\ UNCHANGED <<events, registry, failed_auth_times, event_trackers, now>>

InitSave ==
    /\ events = [eid \in {1} |-> OpenEvent]
    /\ registry = Installed(events)
    /\ failed_auth_times = EmptyDict
    /\ event_trackers = [eid \in {1} |-> EventTracker_init(EmptyEventDir).trk]
    /\ disk = [eid \in {1} |-> EventTracker_init(EmptyEventDir).dsk]
    /\ now = 0
    /\ response = Reply(0, "", "none", 0)
    /\ stdout = Line("startup", "", <<>>, 0, "", -1, -1, FALSE)
    /\ pc = [t \in SaveThreads |-> "idle"]
    /\ loc = [t \in SaveThreads \cup {"saves"} |-> IF t = "saves" THEN NoSaves ELSE IdleSave]

NextSave ==
    \/ \E t \in SaveThreads : SaveBegin(t)
    \/ \E t \in SaveThreads : SaveExists(t)
    \/ \E t \in SaveThreads : SaveRotateScan(t)
    \/ \E t \in SaveThreads : SaveRotateRename(t)
    \/ \E t \in SaveThreads : SaveWriteTmp(t)
    \/ \E t \in SaveThreads : SaveRenameTmp(t)

\* Two handler threads save courses of event 1
SpecSave == InitSave /\ [][NextSave]_vars

(***************************************************************************)
(* The manager updates event 1 and the unknown event 3, beside event 2,    *)
(* while time passes and events.json can or cannot be written              *)
(***************************************************************************)
\* The bodies of the PATCH: allow-listed keys, keys of the event that are
\* not allow-listed, and keys of the registry
UpdateBodies ==
    { [archived |-> TRUE, created |-> 9],
      [timezone |-> 1, updated |-> 9],
      [tracker_password |-> <<"q">>, next_eid |-> 9, manager_password |-> <<"z">>] }
UpdateEids == {1, 3}

InitUpdate ==
    /\ events = [eid \in {1, 2} |-> IF eid = 1 THEN ProtectedEvent(<<"p">>) ELSE OpenEvent]
    /\ registry = Installed(events)
    /\ failed_auth_times = EmptyDict
    /\ event_trackers = EmptyDict
    /\ disk = [eid \in {1, 2} |-> EmptyEventDir]
    /\ now = 0
    /\ response = Reply(0, "", "none", 0)
    /\ stdout = Line("startup", "", <<>>, 0, "", -1, -1, FALSE)
    /\ pc = NoThreads
    /\ loc = NoThreads

NextUpdate ==
    \/ \E eid \in UpdateEids, updates \in UpdateBodies, ok \in BOOLEAN :
          UpdateEventSave(eid, updates, ok)
    \/ Tick

SpecUpdate == InitUpdate /\ [][NextUpdate]_vars

(***************************************************************************)
(* Reports with a field of the wrong type, unparsable or out of range      *)
(***************************************************************************)
NextField ==
    \/ \E packet \in FieldPackets : UdpReport(packet, IpA)
    \/ \E packet \in FieldPackets : HttpReport(packet, IpA)

SpecField == InitTrack /\ [][NextField]_vars

(***************************************************************************)
(* sanitize_tracker_packet applied to a report and then to its own result. *)
(* loc["sanitize"] holds the report, the result of the first call (once)   *)
(* and the result of the call on that result (twice); pc["sanitize"] is    *)
(* "call", "once", "twice", or "raised" when the first call raised.        *)
(***************************************************************************)
SetField(packet, k, value) == [x \in {k} |-> value] @@ packet
Repeat(c, n) == [i \in 1..n |-> c]

\* Strings with markup characters, blanks around them, and longer than the
\* field's limit (17 characters of which the 16th is a blank, and 33)
MarkupStrings ==
    { <<"a">>, <<>>, <<" ", "a", " ">>, <<"<", "b", ">", "a">>, <<"a", "<">>, <<"<", "a">>,
      <<"<", ">">>, <<"<", "<", "b", ">", ">">>, <<"a", "&", "\"", "'", "b">>,
      Repeat("a", 15) \o <<" ", "b">>, Repeat("a", 33) }
StringValues ==
    {JStr(str) : str \in MarkupStrings}
        \cup {JNull, JInt(-5), JBool(TRUE), JList(<<>>), JInf, JNaN}
NumberValues ==
    BadValues \cup {JNaN, JNull, JInt(0), JInt(91), JStr(<<" ", "7">>), JStr(<<"-", "3">>)}
BoolValues ==
    { JBool(TRUE), JBool(FALSE), JStr(Str_true), JStr(<<"Y", "E", "S">>), JStr(Str_one),
      JStr(<<"n", "o">>), JStr(<<>>), JInt(0), JInt(2), JNull, JList(<<>>),
      JList(<<JInt(0)>>), JInf }
\* Entries of pos: a sample, a sample with a speed out of range, an entry of
\* five values, an entry of two, an entry that is no list, samples with
\* unparsable, out-of-range and nan values, and a sample with an infinite
\* timestamp
PosEntries ==
    { MkSample(1, 20, 30),
      JList(<<JInt(1), JInt(20), JInt(30), JInt(200)>>),
      JList(<<JInt(1), JInt(20), JInt(30), JInt(5), JInt(6)>>),
      JList(<<JInt(1), JInt(20)>>),
      JInt(3),
      JList(<<JStr(<<"x">>), JInt(-200), JInt(200)>>),
      JList(<<JNaN, JNaN, JInf>>),
      JList(<<JInf, JInt(20), JInt(30)>>) }
PosValues ==
    {JList(<<>>), JNull, JStr(<<"x">>)}
        \cup {JList(<<e>>) : e \in PosEntries}
        \cup {JList(<<e, f>>) : e, f \in PosEntries}
        \cup { JList(Repeat(JList(<<JInt(1), JInt(20)>>), PosLimit) \o <<MkSample(1, 20, 30)>>),
               JList(Repeat(MkSample(2, 20, 30), PosLimit) \o <<MkSample(1, 20, 30)>>) }
SanitizePackets ==
    {SetField(MkPacket(IdA, 1, 1, 10, 30), k, value) :
        k \in {"id", "role", "pwd"}, value \in StringValues}
    \cup {SetField(MkPacket(IdA, 1, 1, 10, 30), k, value) :
             k \in {"sq", "ts", "eid", "lat", "lon"}, value \in NumberValues}
    \cup {SetField(MkPacket(IdA, 1, 1, 10, 30), k, value) :
             k \in {"ast", "chg"}, value \in BoolValues}
    \cup {SetField(MkPacket(IdA, 1, 1, 10, 30), "pos", value) : value \in PosValues}

\* The dict sanitize_tracker_packet returned, as the argument of a call
as_packet(sp) ==
    [ k \in DOMAIN sp |->
        IF k \in {"id", "role", "pwd"} THEN JStr(sp[k])
        ELSE IF k \in {"ast", "chg"} THEN JBool(sp[k])
        ELSE IF k = "pos"
        THEN JList([i \in 1..Len(sp[k]) |->
                       JList([j \in 1..Len(sp[k][i]) |-> JInt(sp[k][i][j])])])
        ELSE JInt(sp[k]) ]

InitSanitize ==
    /\ events = [eid \in {1} |-> OpenEvent]
    /\ registry = Installed(events)
    /\ failed_auth_times = EmptyDict
    /\ event_trackers = EmptyDict
    /\ disk = [eid \in {1} |-> EmptyEventDir]
    /\ now = 0
    /\ response = Reply(0, "", "none", 0)
    /\ stdout = Line("startup", "", <<>>, 0, "", -1, -1, FALSE)
    /\ pc = [t \in {"sanitize"} |-> "call"]
    /\ \E packet \in SanitizePackets :
          loc = [t \in {"sanitize"} |-> [packet |-> packet, once |-> None, twice |-> None]]

SanitizeCall ==
    /\ pc["sanitize"] = "call"
    /\ IF sanitize_raises(loc["sanitize"].packet)
       THEN pc' = [pc EXCEPT !["sanitize"] = "raised"] /\ loc' = loc
       ELSE /\ pc' = [pc EXCEPT !["sanitize"] = "once"]
            /\ loc' = [loc EXCEPT !["sanitize"].once =
                                      Some(sanitize_tracker_packet(loc["sanitize"].packet))]
    /\ UNCHANGED <<events, registry, failed_auth_times, event_trackers, disk, now, response, stdout>>

SanitizeAgain ==
    /\ pc["sanitize"] = "once"
    /\ pc' = [pc EXCEPT !["sanitize"] = "twice"]
    /\ loc' = [loc EXCEPT !["sanitize"].twice =
                              Some(sanitize_tracker_packet(as_packet(loc["sanitize"].once[1])))]
    /\ UNCHANGED <<events, registry, failed_auth_times, event_trackers, disk, now, response, stdout>>

NextSanitize ==
    \/ SanitizeCall
    \/ SanitizeAgain

SpecSanitize == InitSanitize /\ [][NextSanitize]_vars

(***************************************************************************)
(* The midnight worker, run_midnight_clearer.  Time is counted in ticks of *)
(* the clock now; a day has DayLen ticks and an event's timezone is its    *)
(* offset from UTC in ticks, so the local time of an event is now plus its *)
(* timezone.  loc["midnight"] holds the worker's last_cleared_date, the    *)
(* events its pass has still to visit (todo) and cleared_log, the          *)
(* <<eid, local date, ticks since local midnight>> of every "Auto-cleared" *)
(* line it has printed.                                                    *)
(***************************************************************************)
check_interval == 2     \* the worker's sleep, in ticks
DayLen == 8             \* ticks in a day
MaxDays == 2            \* the clock stops after MaxDays days

Timezones == {0, DayLen \div 2}
today_in_tz(S, event) == (S.now + event.timezone) \div DayLen
seconds_since_midnight(S, event) == (S.now + event.timezone) % DayLen

\* A window of one check_interval
midnight_window_short == check_interval
\* "if seconds_since_midnight < check_interval * 2": the length of the window
\* after midnight
midnight_window == check_interval * 2

\* A visit that clears whenever it falls in the window after midnight
midnight_visit_every_wake(S, last_cleared_date, eid) ==
    LET today == today_in_tz(S, S.events[eid])
        S1    == get_event_tracker(S, eid)
        r     == EventTracker_clear_tracks([trk |-> S1.trackers[eid], dsk |-> S1.disk[eid]])
    IN  IF seconds_since_midnight(S, S.events[eid]) < midnight_window
        THEN [ S |-> [S1 EXCEPT !.trackers[eid] = r.trk, !.disk[eid] = r.dsk],
               last_cleared_date |-> DictSet(last_cleared_date, eid, today),
               cleared |-> TRUE ]
        ELSE [S |-> S, last_cleared_date |-> last_cleared_date, cleared |-> FALSE]

\* The body of the worker's loop for one event
midnight_visit(S, last_cleared_date, eid) ==
    LET today == today_in_tz(S, S.events[eid])
        S1    == get_event_tracker(S, eid)
        r     == EventTracker_clear_tracks([trk |-> S1.trackers[eid], dsk |-> S1.disk[eid]])
    IN  IF eid \in DOMAIN last_cleared_date /\ last_cleared_date[eid] >= today
        THEN [S |-> S, last_cleared_date |-> last_cleared_date, cleared |-> FALSE]
        ELSE IF seconds_since_midnight(S, S.events[eid]) < midnight_window
        THEN [ S |-> [S1 EXCEPT !.trackers[eid] = r.trk, !.disk[eid] = r.dsk],
               last_cleared_date |-> DictSet(last_cleared_date, eid, today),
               cleared |-> TRUE ]
        ELSE [S |-> S, last_cleared_date |-> last_cleared_date, cleared |-> FALSE]

\* One iteration of "for eid in event_manager.list_events()"
MidnightVisit ==
    /\ loc["midnight"].todo # {}
    /\ LET eid == CHOOSE e \in loc["midnight"].todo : \A f \in loc["midnight"].todo : e <= f
           r   == midnight_visit(St, loc["midnight"].last_cleared_date, eid)
       IN  /\ loc' = [loc EXCEPT !["midnight"] =
                         [ last_cleared_date |-> r.last_cleared_date,
                           todo |-> @.todo \ {eid},
                           cleared_log |->
                               IF r.cleared
                               THEN Append(@.cleared_log,
                                           << eid, today_in_tz(St, events[eid]),
                                              seconds_since_midnight(St, events[eid]) >>)
                               ELSE @.cleared_log ]]
           /\ stdout' = IF r.cleared
                        THEN Line("auto-cleared", "", <<>>, eid, "", -1, -1, FALSE)
                        ELSE stdout
           /\ event_trackers' = r.S.trackers
           /\ disk' = r.S.disk
    /\ UNCHANGED <<events, registry, failed_auth_times, now, response, pc>>

\* time.sleep(check_interval), with the time the pass took
MidnightSleep ==
    /\ loc["midnight"].todo = {}
    /\ \E d \in {check_interval, check_interval + 1} :
          /\ now + d < MaxDays * DayLen
          /\ now' = now + d
    /\ loc' = [loc EXCEPT !["midnight"].todo = DOMAIN events]
    /\ UNCHANGED <<events, registry, failed_auth_times, event_trackers, disk, response, stdout, pc>>

\* Two events in different timezones; the server starts at any time of day
InitMidnight ==
    /\ events = [eid \in {1, 2} |->
                    [OpenEvent EXCEPT !.timezone = IF eid = 1 THEN 0 ELSE DayLen \div 2]]
    /\ registry = Installed(events)
    /\ failed_auth_times = EmptyDict
    /\ event_trackers = EmptyDict
    /\ disk = [eid \in {1, 2} |-> EmptyEventDir]
    /\ now \in 0..(DayLen - 1)
    /\ response = Reply(0, "", "none", 0)
    /\ stdout = Line("startup", "", <<>>, 0, "", -1, -1, FALSE)
    /\ pc = [t \in {"midnight"} |-> "loop"]
    /\ loc = [t \in {"midnight"} |->
                 [last_cleared_date |-> EmptyDict, todo |-> {1, 2}, cleared_log |-> <<>>]]

NextMidnight ==
    \/ MidnightVisit
    \/ MidnightSleep
    \/ \E tz \in Timezones : UpdateEvent(1, [timezone |-> tz])

\* The midnight worker beside the manager
SpecMidnight == InitMidnight /\ [][NextMidnight]_vars

(***************************************************************************)
(* An event that is archived while it holds data: tracker a reports and    *)
(* the admin works on event 1, the manager archives it, and the midnight   *)
(* worker keeps running.                                                   *)
(***************************************************************************)
InitArchive ==
    /\ events = [eid \in {1} |-> OpenEvent]
    /\ registry = Installed(events)
    /\ failed_auth_times = EmptyDict
    /\ event_trackers = EmptyDict
    /\ disk = [eid \in {1} |-> EmptyEventDir]
    /\ now = DayLen \div 2
    /\ response = Reply(0, "", "none", 0)
    /\ stdout = Line("startup", "", <<>>, 0, "", -1, -1, FALSE)
    /\ pc = [t \in {"midnight"} |-> "loop"]
    /\ loc = [t \in {"midnight"} |->
                 [last_cleared_date |-> EmptyDict, todo |-> {1}, cleared_log |-> <<>>]]

ArchiveRequest(route) ==
    /\ AdminRequest(route[1], 1, route[2], IpA, OpenEvent.admin_password)
    /\ UNCHANGED <<registry, now, pc, loc>>

NextArchive ==
    \/ /\ UdpReport(MkPacket(IdA, 1, 1, 10, 30), IpA)
       /\ UNCHANGED <<registry, now, pc, loc>>
    \/ \E route \in AdminRoutes : ArchiveRequest(route)
    \/ UpdateEvent(1, [archived |-> TRUE])
    \/ MidnightVisit
    \/ MidnightSleep

SpecArchive == InitArchive /\ [][NextArchive]_vars

(***************************************************************************)
(* The midnight worker from its start on, with events whose timezones stay *)
(* as they are.  loc["midnight"] holds, beside last_cleared_date and todo,  *)
(* the time the worker started, the cleared_log and raised_log, the        *)
(* <<eid, local date>> of every clear_tracks call that raised.  The        *)
(* clear_tracks of event 1 is the one that can raise.                      *)
(***************************************************************************)
Worker == loc["midnight"]
RaisingEids == {1}

InitWorker ==
    /\ \E tz \in Timezones :
          events = [eid \in {1, 2} |-> [OpenEvent EXCEPT !.timezone = IF eid = 1 THEN 0 ELSE tz]]
    /\ registry = Installed(events)
    /\ failed_auth_times = EmptyDict
    /\ event_trackers = EmptyDict
    /\ disk = [eid \in {1, 2} |-> EmptyEventDir]
    /\ now \in 0..(DayLen - 1)
    /\ response = Reply(0, "", "none", 0)
    /\ stdout = Line("startup", "", <<>>, 0, "", -1, -1, FALSE)
    /\ pc = [t \in {"midnight"} |-> "loop"]
    /\ loc = [t \in {"midnight"} |->
                 [ last_cleared_date |-> EmptyDict, todo |-> {1, 2}, cleared_log |-> <<>>,
                   started |-> now, raised_log |-> <<>> ]]

\* One iteration of "for eid in event_manager.list_events()" inside the
\* worker's "try": when get_event_tracker or clear_tracks raises, the loop is
\* left for "except Exception", which prints the error, and the worker goes
\* to sleep
WorkerVisit(raises) ==
    /\ Worker.todo # {}
    /\ LET eid == CHOOSE e \in Worker.todo : \A f \in Worker.todo : e <= f
           r   == midnight_visit(St, Worker.last_cleared_date, eid)
       IN  IF r.cleared /\ raises
           THEN /\ eid \in RaisingEids
                /\ loc' = [loc EXCEPT !["midnight"].todo = {},
                                      !["midnight"].raised_log =
                                          Append(@, <<eid, today_in_tz(St, events[eid])>>)]
                /\ stdout' = Line("midnight error", "", <<>>, eid, "", -1, -1, FALSE)
                /\ UNCHANGED <<event_trackers, disk>>
           ELSE /\ loc' = [loc EXCEPT !["midnight"].last_cleared_date = r.last_cleared_date,
                                      !["midnight"].todo = @ \ {eid},
                                      !["midnight"].cleared_log =
                                          IF r.cleared
                                          THEN Append(@, << eid, today_in_tz(St, events[eid]),
                                                            seconds_since_midnight(St, events[eid]) >>)
                                          ELSE @]
                /\ stdout' = IF r.cleared
                             THEN Line("auto-cleared", "", <<>>, eid, "", -1, -1, FALSE)
                             ELSE stdout
                /\ event_trackers' = r.S.trackers
                /\ disk' = r.S.disk
    /\ UNCHANGED <<events, registry, failed_auth_times, now, response, pc>>

NextWorker ==
    \/ WorkerVisit(FALSE)
    \/ MidnightSleep

\* The midnight worker with no call that raises
SpecWorker == InitWorker /\ [][NextWorker]_vars

NextFaulty ==
    \/ \E raises \in BOOLEAN : WorkerVisit(raises)
    \/ MidnightSleep

\* The midnight worker when the clear_tracks of event 1 can raise
SpecFaulty == InitWorker /\ [][NextFaulty]_vars

(***************************************************************************)
(* What the claims observe                                                 *)
(***************************************************************************)
NoTracker ==
    [current_positions |-> EmptyDict, last_timestamp |-> EmptyDict, user_overrides |-> EmptyDict]
\* The EventTracker of eid, when the map holds one
TrackerOf(eid) == IF eid \in DOMAIN event_trackers THEN event_trackers[eid] ELSE NoTracker
LivePositions(eid) == TrackerOf(eid).current_positions
LastTimestamp(eid) == TrackerOf(eid).last_timestamp
\* current_positions.json and the active daily log of eid
Snapshot(eid) == IF eid \in DOMAIN disk THEN disk[eid].positions_file ELSE MissingPositionsFile
ActiveLog(eid) ==
    IF eid \in DOMAIN disk /\ 0 \in DOMAIN disk[eid].logs THEN disk[eid].logs[0] ELSE <<>>
\* The packets a console line can stand for: those with the tracker, the
\* event, the timestamp and the latitude it names
PacketsNamed ==
    [ id \in {IdA, IdB, <<>>}, eid \in 0..3, ts \in (-1)..MaxTs, lat \in {-1, 0, 10, 20} |->
        {packet \in AllPackets :
            /\ SanitizedPackets[packet].id = id
            /\ eid \in {0, SanitizedPackets[packet].eid}
            /\ ts \in {-1, report_args(SanitizedPackets[packet]).ts}
            /\ lat \in {-1, report_args(SanitizedPackets[packet]).lat}} ]
\* The requests, <<packet, address, transport>>, the last console line can
\* stand for
Reported ==
    PacketsNamed[stdout.id, stdout.eid, stdout.ts, stdout.lat]
        \X (IF stdout.ip = "" THEN {IpA, IpB} ELSE {stdout.ip}) \X {stdout.source}
\* A step in which the server handles the request r
ReportStep(r) == IF r[3] = "UDP" THEN UdpReport(r[1], r[2]) ELSE HttpReport(r[1], r[2])
\* Every handled request is among those its console line stands for, so a
\* property of the steps of Reported' is a property of every report
ReportsArePrinted ==
    [][\A packet \in AllPackets, ip \in {IpA, IpB} :
          /\ UdpReport(packet, ip) => <<packet, ip, "UDP">> \in Reported'
          /\ HttpReport(packet, ip) => <<packet, ip, "POST">> \in Reported']_vars
\* The stored timestamp of a tracker makes a report with ts a duplicate
SeenBefore(eid, sailor_id, ts) ==
    sailor_id \in DOMAIN LastTimestamp(eid) /\ ts <= LastTimestamp(eid)[sailor_id]

(***************************************************************************)
(* Duplicate suppression and the track log, reports handled one at a time  *)
(***************************************************************************)
C1_Step(packet) ==
    LET a == report_args(SanitizedPackets[packet])
        T == a.sailor_id
    IN  IF SeenBefore(1, T, a.ts)
        THEN /\ LivePositions(1)' = LivePositions(1)
             /\ LastTimestamp(1)' = LastTimestamp(1)
             /\ Snapshot(1)' = Snapshot(1)
        ELSE /\ LastTimestamp(1)'[T] = a.ts
             /\ LivePositions(1)'[T].ts = a.ts
             /\ T \in DOMAIN LivePositions(1) => LivePositions(1)[T].ts < a.ts

\* C1: a report whose ts is not above the stored last_timestamp of its
\* tracker changes neither the live table, nor last_timestamp, nor the
\* snapshot; any other report (a higher ts, or the tracker's first) sets
\* last_timestamp and the live entry's ts to its ts, which is above the ts of
\* the live entry it replaces.
C1_DuplicateSuppression ==
    [][\A r \in Reported' : ReportStep(r) => C1_Step(r[1])]_vars

\* A report of tracker a below its stored timestamp was suppressed while
\* tracker b is in the live table too
C1_Witness ==
    /\ stdout.kind = "position" /\ stdout.dup /\ stdout.id = IdA
    /\ IdB \in DOMAIN LivePositions(1)
    /\ stdout.ts < LastTimestamp(1)[IdA]
    /\ LivePositions(1)[IdA].ts = LastTimestamp(1)[IdA]

C8_Step(packet) ==
    LET sp == SanitizedPackets[packet]
        n  == IF "pos" \in DOMAIN sp THEN Len(sp["pos"]) ELSE 0
    IN  n >= 2 =>
           ActiveLog(1)' = Append(ActiveLog(1),
                                  [ id |-> sp.id, ts |-> sp["pos"][n][1], pos |-> sp["pos"],
                                    role |-> sp.role ])

\* C8: a report whose sanitized pos array has two or more entries appends
\* exactly one line to the daily log, a line with the whole pos array and the
\* ts of its last sample, whether or not the report is a duplicate.
C8_BatchLine ==
    [][\A r \in Reported' : ReportStep(r) => C8_Step(r[1])]_vars

\* The last line of the log is the batch line of a report that was a
\* duplicate
C8_Witness ==
    /\ stdout.kind = "position" /\ stdout.dup
    /\ ActiveLog(1) # <<>>
    /\ "pos" \in DOMAIN ActiveLog(1)[Len(ActiveLog(1))]
    /\ Len(ActiveLog(1)[Len(ActiveLog(1))]["pos"]) = 2
    /\ ActiveLog(1)[Len(ActiveLog(1))].id = stdout.id
    /\ ActiveLog(1)[Len(ActiveLog(1))].ts = stdout.ts

SingleLine(packet) ==
    LET a == report_args(SanitizedPackets[packet])
    IN  [id |-> a.sailor_id, ts |-> a.ts, lat |-> a.lat, lon |-> a.lon, role |-> a.role]
ShortReport(packet) ==
    LET sp == SanitizedPackets[packet]
    IN  IF "pos" \in DOMAIN sp THEN Len(sp["pos"]) = 1 ELSE TRUE

\* C9 as the specification states it: every report with no pos array, or a
\* pos array of one entry, appends a single-sample line to the daily log.
C9_AsStated ==
    [][\A r \in Reported' :
          ReportStep(r) /\ ShortReport(r[1])
              => ActiveLog(1)' = Append(ActiveLog(1), SingleLine(r[1]))]_vars

C9_Step(packet) ==
    LET a == report_args(SanitizedPackets[packet])
    IN  ShortReport(packet) =>
           IF SeenBefore(1, a.sailor_id, a.ts)
           THEN ActiveLog(1)' = ActiveLog(1)
           ELSE ActiveLog(1)' = Append(ActiveLog(1), SingleLine(packet))

\* C9: a report with no pos array, or a pos array of one entry, that is not
\* a duplicate appends exactly one single-sample line (lat and lon at top
\* level, no pos field); a duplicate one appends nothing.
C9_SingleLine ==
    [][\A r \in Reported' : ReportStep(r) => C9_Step(r[1])]_vars

\* A one-entry pos array was accepted and its sample is the last log line
C9_Witness ==
    /\ stdout.kind = "position" /\ ~stdout.dup
    /\ ActiveLog(1) # <<>>
    /\ "lat" \in DOMAIN ActiveLog(1)[Len(ActiveLog(1))]
    /\ ActiveLog(1)[Len(ActiveLog(1))].ts = 1
    /\ ActiveLog(1)[Len(ActiveLog(1))].lat = 20
    /\ LivePositions(1)[stdout.id].ts = 1
    /\ response.status = 200

(***************************************************************************)
(* Restart                                                                 *)
(***************************************************************************)
\* C10: a tracker built from a snapshot has last_timestamp[T] equal to the
\* ts of T for every tracker T it restored, whatever the ts is (so that a
\* report with that ts is a duplicate).
C10_RestoredTimestamps ==
    \A sailor_id \in DOMAIN LivePositions(1) :
        /\ sailor_id \in DOMAIN LastTimestamp(1)
        /\ LastTimestamp(1)[sailor_id] = LivePositions(1)[sailor_id].ts

(***************************************************************************)
(* The ingest router                                                       *)
(***************************************************************************)
\* All that belongs to one event: whether it has a tracker, the tracker's
\* tables and overrides, and the event directory with the snapshot, the
\* logs, the course file and the users file
EventState(eid) ==
    [ tracked |-> eid \in DOMAIN event_trackers,
      tracker |-> TrackerOf(eid),
      dir     |-> IF eid \in DOMAIN disk THEN disk[eid] ELSE EmptyEventDir ]
\* The pwd as the tracker sent it
SentPwd(packet) == IF "pwd" \in DOMAIN packet THEN packet["pwd"].s ELSE <<>>
\* The address has a recorded failure less than RATE_LIMIT_SECONDS old
Blocked(ip) ==
    ip \in DOMAIN failed_auth_times /\ now < failed_auth_times[ip] + RATE_LIMIT_SECONDS
Processed == response.error = "" /\ stdout.kind = "position"

C4_Step(packet) ==
    \A B \in (1..3) \ {SanitizedPackets[packet].eid} : EventState(B)' = EventState(B)

\* C4: handling a report addressed to event A, whether it is accepted, a
\* duplicate or rejected, over UDP or HTTP, leaves the live table, the
\* last-timestamp table, the snapshot, the logs, the course file and the
\* user overrides of every other event B unchanged.
C4_EventIsolation ==
    [][\A r \in Reported' : ReportStep(r) => C4_Step(r[1])]_vars

\* Event 2 took a report while event 1 holds a different position of the
\* same tracker
C4_Witness ==
    /\ stdout.kind = "position" /\ stdout.eid = 2 /\ ~stdout.dup
    /\ 1 \in DOMAIN event_trackers
    /\ LivePositions(1)[IdA].ts = 1
    /\ LivePositions(2)[IdA].ts = 2
    /\ Len(ActiveLog(1)) = 1

C5_Step(packet, ip) ==
    LET eid == SanitizedPackets[packet].eid
    IN  (eid \in DOMAIN events /\ events[eid].tracker_password # <<>>
            /\ ~events[eid].archived /\ ~Blocked(ip))
        => IF SentPwd(packet) = events[eid].tracker_password
           THEN Processed'
           ELSE response'.error = "auth" /\ EventState(eid)' = EventState(eid)

\* C5: on an event that is not archived and has a non-empty
\* tracker_password, from an address that is not rate-limited, a report
\* whose pwd is missing or differs from the password gets an ACK with error
\* "auth" and changes nothing of the event (no tracker is created); a report
\* whose pwd equals the password, whatever string the manager stored, is
\* processed by the event's tracker.
C5_PasswordDecides ==
    [][\A r \in Reported' : ReportStep(r) => C5_Step(r[1], r[2])]_vars

\* The report passes the event lookup and the authentication: its event is
\* in the registry and not archived and asks for no password, or the
\* address is not rate-limited and the sanitized pwd is the password
Passes(packet, ip) ==
    LET sp  == SanitizedPackets[packet]
        eid == sp.eid
    IN  /\ eid \in DOMAIN events
        /\ ~events[eid].archived
        /\ \/ events[eid].tracker_password = <<>>
           \/ ~Blocked(ip) /\ packet_pwd(sp) = events[eid].tracker_password
C21_Step(packet, ip, source) ==
    Passes(packet, ip)
        => /\ response'.ack = SanitizedPackets[packet].sq
           /\ response'.error = ""
           /\ source = "POST" => response'.status = 200

\* C21: every report that passes the event lookup and the authentication
\* is answered with a success ACK, status 200 over HTTP, whose ack is the
\* sanitized sq of the report and which carries no error, whether the
\* report is a duplicate or not.
C21_SuccessAck ==
    [][\A r \in Reported' : ReportStep(r) => C21_Step(r[1], r[2], r[3])]_vars

\* A duplicate sent with the password to event 1 over HTTP was acknowledged
C21_Witness ==
    /\ stdout.kind = "position" /\ stdout.source = "POST" /\ stdout.dup
    /\ stdout.eid = 1 /\ events[1].tracker_password # <<>>
    /\ response.error = "" /\ response.status = 200 /\ response.ack = 1

C7_Step(packet) ==
    LET eid == SanitizedPackets[packet].eid
    IN  (eid \in DOMAIN events /\ events[eid].archived)
        => response'.error = "event" /\ EventState(eid)' = EventState(eid)
Listed(evs) ==
    \A eid \in DOMAIN evs :
        evs[eid].archived => eid \in get_all_events(evs) /\ eid \notin get_public_events(evs)

\* C7: once update_event has set archived on an event, every report
\* addressed to it, with any pwd, over UDP or HTTP, gets an ACK with error
\* "event" and leaves the event's live table, snapshot and log unchanged;
\* the event is in the manager listing and not in the public listing.
C7_ArchivedRejects ==
    [][/\ \A r \in Reported' : ReportStep(r) => C7_Step(r[1])
       /\ UpdateEvent(1, [archived |-> TRUE]) => events'[1].archived
       /\ Listed(events')]_vars

\* Event 1 took positions, was archived, and a POST to it was rejected
C7_Witness ==
    /\ events[1].archived
    /\ stdout.kind = "archived" /\ stdout.eid = 1
    /\ response.error = "event" /\ response.status = 400
    /\ 1 \in DOMAIN event_trackers
    /\ LivePositions(1)[IdA].ts = 1

C6_Step(packet, ip) ==
    IF Blocked(ip)
    THEN response'.error = "auth" /\ EventState(1)' = EventState(1)
    ELSE (ip \in DOMAIN failed_auth_times /\ SentPwd(packet) = events[1].tracker_password)
            => Processed'

\* C6: while an address has a failed tracker authentication less than
\* W = 5 seconds old, every report from it to the password-protected event,
\* with the right pwd or a wrong one, gets error "auth" and is not
\* processed; from W seconds after the failure a report from it with the
\* event's password is processed.
C6_RateLimit ==
    [][\A r \in Reported' : ReportStep(r) => C6_Step(r[1], r[2])]_vars

\* The window of C6 for the pwd the handlers compare, the sanitized one
C6_Window ==
    [][\A r \in Reported' :
          ReportStep(r) =>
             IF Blocked(r[2])
             THEN response'.error = "auth" /\ EventState(1)' = EventState(1)
             ELSE (r[2] \in DOMAIN failed_auth_times
                      /\ password_matches(SanitizedPackets[r[1]], events[1])) => Processed']_vars

\* C11: a report carrying auth_check = true that passes event lookup and
\* authentication is answered with a plain ACK and changes nothing: neither
\* the trackers nor the files change in the step that handles it.
C11_Step(packet) ==
    (packet \in AuthCheckPackets /\ response'.error = "")
        => /\ response'.msg = ""
           /\ event_trackers' = event_trackers
           /\ disk' = disk
C11_AuthCheckOnly == [][\A r \in Reported' : ReportStep(r) => C11_Step(r[1])]_vars

(***************************************************************************)
(* Course of a log segment                                                 *)
(***************************************************************************)
CourseFiles == disk[1].courses
Summary == loc["summary"]
\* The course files with a stamp that is not after the end of the segment
NotAfter(end_ts) == {n \in DOMAIN CourseFiles : CourseFiles[n].updated <= end_ts}

\* C15: for every set of course files and every segment end E, the course
\* resolved is a file whose updated is the greatest among those <= E, and
\* none is resolved exactly when no file has updated <= E.
C15_ApplicableCourse ==
    Summary.done =>
        IF NotAfter(Summary.end_ts) = {}
        THEN Summary.course = None
        ELSE /\ Summary.course # None
             /\ Summary.course[1] \in NotAfter(Summary.end_ts)
             /\ Summary.course[2] = CourseFiles[Summary.course[1]].updated
             /\ \A n \in NotAfter(Summary.end_ts) :
                    CourseFiles[n].updated <= Summary.course[2]

\* The same for directories of fewer rotations than the scan reaches
C15_WithinScan ==
    (\A n \in DOMAIN CourseFiles : n < RotationScanEnd) => C15_ApplicableCourse

(***************************************************************************)
(* User overrides                                                          *)
(***************************************************************************)
\* The role carried by the last accepted report of sailor_id to eid: the
\* role of its last line in the track log
LinesOf(eid, sailor_id) ==
    {i \in 1..Len(ActiveLog(eid)) : ActiveLog(eid)[i].id = sailor_id}
ReportedRole(eid, sailor_id) ==
    ActiveLog(eid)[CHOOSE i \in LinesOf(eid, sailor_id) :
                       \A j \in LinesOf(eid, sailor_id) : j <= i].role
UserOverrides(eid) == TrackerOf(eid).user_overrides

\* C16: overrides never change a live entry.  At every moment, restarts
\* included, the role of every live entry is the role of the tracker's last
\* accepted report, and a tracker without an override is published with its
\* reported role and with no name and no hidden flag.
C16_OverridesLeaveLive ==
    \A sailor_id \in DOMAIN LivePositions(1) :
        /\ LivePositions(1)[sailor_id].role = ReportedRole(1, sailor_id)
        /\ (sailor_id \notin DOMAIN UserOverrides(1) /\ Snapshot(1).whole
               /\ sailor_id \in DOMAIN Snapshot(1).sailors)
           => /\ Snapshot(1).sailors[sailor_id].role = ReportedRole(1, sailor_id)
              /\ "name" \notin DOMAIN Snapshot(1).sailors[sailor_id]
              /\ "hidden" \notin DOMAIN Snapshot(1).sailors[sailor_id]

(***************************************************************************)
(* clear_tracks                                                            *)
(***************************************************************************)
\* C17: after clear_tracks, with no report running, the live table and the
\* last-timestamp table are empty, current_positions.json exists with an
\* empty sailors map, the lines the active log held are in a new rotated
\* file, the earlier rotations are as they were, the active log is empty,
\* and the report that comes next is accepted whatever its ts.
C17_ClearTracks ==
    [][ /\ stdout'.kind = "tracks cleared" =>
            /\ LivePositions(1)' = EmptyDict
            /\ LastTimestamp(1)' = EmptyDict
            /\ Snapshot(1)'.exists /\ Snapshot(1)'.whole
            /\ Snapshot(1)'.sailors = EmptyDict
            /\ ActiveLog(1)' = <<>> /\ 0 \in DOMAIN disk'[1].logs
            /\ \E n \in DOMAIN disk'[1].logs \ {0} :
                  /\ n \notin DOMAIN disk[1].logs
                  /\ disk'[1].logs[n] = ActiveLog(1)
                  /\ DOMAIN disk'[1].logs = DOMAIN disk[1].logs \cup {0, n}
            /\ \A n \in DOMAIN disk[1].logs \ {0} : disk'[1].logs[n] = disk[1].logs[n]
        /\ (stdout.kind = "tracks cleared" /\ stdout'.kind = "position") =>
            /\ ~stdout'.dup
            /\ stdout'.id \in DOMAIN LivePositions(1)'
            /\ LastTimestamp(1)'[stdout'.id] = stdout'.ts
            /\ Len(ActiveLog(1)') = 1 ]_vars

\* Tracker a reported ts MaxTs, the tracks were cleared, and its report with
\* ts 0 was accepted: the first is in a rotated log, the second in the
\* active one
C17_Witness ==
    /\ stdout.kind = "position" /\ ~stdout.dup /\ stdout.ts = 0
    /\ \E n \in DOMAIN disk[1].logs \ {0} :
          /\ disk[1].logs[n] # <<>>
          /\ disk[1].logs[n][1].id = IdA /\ disk[1].logs[n][1].ts = MaxTs
    /\ Len(ActiveLog(1)) = 1 /\ ActiveLog(1)[1].id = IdA
    /\ LastTimestamp(1)[IdA] = 0

(***************************************************************************)
(* Course saves                                                            *)
(***************************************************************************)
Saves == loc["saves"]
SavedCourses == disk[1].courses
\* The rotated files that hold the course of the i-th completed save
RotatedAs(i) == {n \in DOMAIN SavedCourses \ {0} : SavedCourses[n] = Saves.completed[i]}

\* C18: no course save is answered with an error, and when no save is
\* running, course.json holds the course of the save that completed last
\* and the course of every earlier save is in exactly one rotated file,
\* those of older saves at smaller suffixes.
C18_CourseSaves ==
    /\ ~Saves.failed
    /\ (\A t \in SaveThreads : pc[t] = "idle") /\ Saves.completed # <<>>
       => /\ 0 \in DOMAIN SavedCourses
          /\ SavedCourses[0] = Saves.completed[Len(Saves.completed)]
          /\ \A i \in 1..(Len(Saves.completed) - 1) : Cardinality(RotatedAs(i)) = 1
          /\ \A i, j \in 1..(Len(Saves.completed) - 1) :
                i < j => \A n \in RotatedAs(i), m \in RotatedAs(j) : n < m

\* The same for saves that do not overlap in time
C18_OneAtATime ==
    ~Saves.overlapped => C18_CourseSaves

(***************************************************************************)
(* update_event                                                            *)
(***************************************************************************)
C19_Step(eid, updates) ==
    IF eid \notin DOMAIN events
    THEN /\ response'.status = 404
         /\ events' = events
         /\ registry' = registry
    ELSE /\ response'.status = 200
         /\ DOMAIN events' = DOMAIN events
         /\ \A other \in DOMAIN events \ {eid} : events'[other] = events[other]
         /\ DOMAIN events'[eid] =
               DOMAIN events[eid] \cup (allowed_fields \cap DOMAIN updates) \cup {"updated"}
         /\ \A f \in allowed_fields \cap DOMAIN updates : events'[eid][f] = updates[f]
         /\ events'[eid]["updated"] = now
         /\ \A f \in DOMAIN events[eid] \ ((allowed_fields \cap DOMAIN updates) \cup {"updated"}) :
               events'[eid][f] = events[eid][f]
         /\ registry'.next_eid = registry.next_eid
         /\ registry'.manager_password = registry.manager_password

\* C19: update_event on an unknown eid fails and leaves the registry and
\* events.json as they were; on a known eid it sets the allow-listed keys of
\* updates and the updated stamp, and leaves every other field of the event
\* (created among them), every other event, next_eid and manager_password
\* as they were.
C19_UpdateFrame ==
    [][\A eid \in UpdateEids, updates \in UpdateBodies, ok \in BOOLEAN :
          UpdateEventSave(eid, updates, ok) => C19_Step(eid, updates)]_vars

\* Event 1 was updated after time passed: it is archived, in another
\* timezone and stamped, and created as it was; event 2 was never updated;
\* the last update of events.json failed
C19_Witness ==
    /\ stdout.kind = "updated" /\ response.status = 200
    /\ events[1].archived /\ events[1].timezone = 1
    /\ events[1]["updated"] > 0 /\ events[1].created = 0
    /\ "updated" \notin DOMAIN events[2]
    /\ registry.events_file.events # events
    /\ registry.next_eid = 3

(***************************************************************************)
(* Field values                                                            *)
(***************************************************************************)
\* The report was processed and acknowledged: the console has its position
\* line with a timestamp and a latitude in range, the answer carries no
\* error, and the tracker of its event knows its sender
C20_Step(packet) ==
    /\ stdout'.kind = "position"
    /\ stdout'.ts >= 0 /\ stdout'.lat \in (-90)..90
    /\ response'.error = "" /\ response'.status \in {0, 200}
    /\ stdout'.eid \in DOMAIN event_trackers'
    /\ stdout'.id \in DOMAIN event_trackers'[stdout'.eid].current_positions

\* C20: every decoded report is processed and acknowledged, with each
\* field value of the wrong type, unparsable or out of range replaced by the
\* default or clamped: none is dropped or answered with an error.
C20_FieldValues ==
    [][\A packet \in FieldPackets :
          (UdpReport(packet, IpA) \/ HttpReport(packet, IpA)) => C20_Step(packet)]_vars

\* The same for the reports without an infinite sq, ts, eid or sample
\* timestamp
C20_FiniteIntegers ==
    [][\A packet \in FieldPackets :
          (~sanitize_raises(packet) /\ (UdpReport(packet, IpA) \/ HttpReport(packet, IpA)))
              => C20_Step(packet)]_vars

(***************************************************************************)
(* The two transports                                                      *)
(***************************************************************************)
\* The step ends as the handler result r does: the same registry events,
\* rate-limit table, trackers and files, a response with the same ack and
\* error, and an ACK that names the event in both or in neither
C23_Agrees(r) ==
    /\ events' = r.S.events /\ failed_auth_times' = r.S.failed
    /\ event_trackers' = r.S.trackers /\ disk' = r.S.disk
    /\ response'.ack = r.response.ack /\ response'.error = r.response.error
    /\ (stdout'.kind = "position") = (r.stdout.kind = "position")
\* A success ACK was sent
SuccessAck == response.error = "" /\ response.msg # "none"
C23_Step(packet, ip) ==
    /\ UdpReport(packet, ip) =>
           (C23_Agrees(http_handle(St, packet, ip))
                /\ (SuccessAck' => stdout'.kind = "position"))
    /\ HttpReport(packet, ip) =>
           (C23_Agrees(udp_handle(St, packet, ip))
                /\ (SuccessAck' => stdout'.kind = "position"))

\* C23: for every report and every starting state, the UDP loop and the
\* HTTP POST handler lead to the same tracker state and rate-limit table
\* and to a response with the same ack, error and event fields, and a
\* success ACK is produced only for a report handed to process_position.
C23_UdpHttpAgree ==
    [][\A packet \in FieldPackets : C23_Step(packet, IpA)]_vars

\* The same for the reports the sanitizer returns from, over the events
\* with and without a tracker password, archived or not
C23_SanitizedAgree ==
    [][\A r \in Reported' : C23_Step(r[1], r[2])]_vars

(***************************************************************************)
(* The registry                                                            *)
(***************************************************************************)
\* The ids for which an event was created: each has its directory
EverCreated == DOMAIN disk

\* C14: through creations, updates, failed saves and restarts, create_event
\* returns an id no event has had before, greater than every earlier id,
\* and next_eid is greater than every key of the events table.
C14_IdsNeverReused ==
    [][/\ \A pwd \in ManagerPasswords, ok \in BOOLEAN :
            CreateEvent(ProtectedEvent(pwd), ok) =>
                /\ response'.ack \notin EverCreated
                /\ \A eid \in EverCreated : eid < response'.ack
       /\ \A eid \in DOMAIN events' : eid < registry'.next_eid]_vars

(***************************************************************************)
(* Rotation                                                                *)
(***************************************************************************)
LogFiles == disk[1].logs
Rotations(files) == DOMAIN files \ {0}

\* C13: rotate_file(P) on an existing P returns a suffix above every suffix
\* in use, the file of that suffix did not exist and gets the content of P,
\* P is gone and every earlier rotated file is as it was; rotate_file on a
\* missing P renames nothing and prints nothing; after clear_today the
\* active path exists and is empty.
C13_Rotation ==
    [][/\ RotateFile =>
           IF 0 \in DOMAIN LogFiles
           THEN /\ stdout'.kind = "rotated"
                /\ stdout'.ts \notin DOMAIN LogFiles
                /\ \A m \in Rotations(LogFiles) : m < stdout'.ts
                /\ DOMAIN LogFiles' = Rotations(LogFiles) \cup {stdout'.ts}
                /\ LogFiles'[stdout'.ts] = LogFiles[0]
                /\ \A m \in Rotations(LogFiles) : LogFiles'[m] = LogFiles[m]
           ELSE LogFiles' = LogFiles /\ stdout' = stdout
       /\ LoggerClear =>
           /\ 0 \in DOMAIN LogFiles' /\ LogFiles'[0] = <<>>
           /\ \A m \in Rotations(LogFiles) : m < stdout'.ts /\ LogFiles'[m] = LogFiles[m]
           /\ Rotations(LogFiles') = Rotations(LogFiles) \cup {stdout'.ts}
      ]_vars

\* Three rotations of a path recreated in between: P.1, P.2 and P.3 hold
\* lines, the oldest of them in P.1, and P is missing
C13_Witness ==
    /\ DOMAIN LogFiles = {1, 2, 3}
    /\ Len(LogFiles[1]) = 1 /\ Len(LogFiles[2]) = 2 /\ Len(LogFiles[3]) = 1
    /\ LogFiles[1] # LogFiles[3]
    /\ stdout.kind = "rotated" /\ stdout.ts = 3

(***************************************************************************)
(* The midnight worker                                                     *)
(***************************************************************************)
ClearedLog == loc["midnight"].cleared_log

ReportThreads == {"udp", "http"}
Threads == ReportThreads \cup {"admin"}
NoReport ==
    [sailor_id |-> <<>>, role |-> <<>>, pos_array |-> <<>>, lat |-> 0, lon |-> 0, ts |-> 0]
IdleLoc == [a |-> NoReport, out |-> EmptyDict, fd |-> "none"]
ConcPackets == SinglePackets
\* One single position of tracker a and one of tracker b
SnapPackets == {packet \in SinglePackets : packet["ts"].v = 1}

\* The call enters EventTracker.process_position: the batch line, if any
Begin(t, packet) ==
    LET a == report_args(SanitizedPackets[packet])
    IN  /\ pc[t] = "idle"
        /\ Len(disk[1].logs[0]) + Cardinality({u \in ReportThreads : pc[u] # "idle"})
              < MaxLogLines
        /\ loc' = [loc EXCEPT ![t].a = a]
        /\ disk' = IF has_batch(a.pos_array)
                   THEN [disk EXCEPT ![1] = DailyLogger_write(@, batch_entry(a))]
                   ELSE disk
        /\ pc' = [pc EXCEPT ![t] = "check"]
        /\ UNCHANGED <<events, registry, failed_auth_times, event_trackers, now, response, stdout>>

\* The first "with self._lock" of PositionTracker.process_position, and the
\* console line; a duplicate returns
Check(t) ==
    LET a   == loc[t].a
        dup == is_dup(event_trackers[1], a.sailor_id, a.ts)
    IN  /\ pc[t] = "check"
        /\ event_trackers' =
              [event_trackers EXCEPT ![1] = PositionTracker_check(@, a.sailor_id, a.ts)]
        /\ stdout' = Line("position", IF t = "udp" THEN "UDP" ELSE "POST", a.sailor_id, 1,
                          IpA, a.ts, a.lat, dup)
        /\ pc' = [pc EXCEPT ![t] = IF dup THEN "idle" ELSE "update"]
        /\ loc' = IF dup THEN [loc EXCEPT ![t] = IdleLoc] ELSE loc
        /\ UNCHANGED <<events, registry, failed_auth_times, disk, now, response>>

\* The second "with self._lock": the live-table update
Update(t) ==
    /\ pc[t] = "update"
    /\ event_trackers' = [event_trackers EXCEPT ![1] = PositionTracker_update(@, loc[t].a)]
    /\ pc' = [pc EXCEPT ![t] = "open1"]
    /\ UNCHANGED <<events, registry, failed_auth_times, disk, now, response, stdout, loc>>

\* write_current_positions up to open(tmp_file, 'w'): the output is made
\* from the live table, with the global overrides in PositionTracker, the
\* event's in EventTracker, and from {} in clear_tracks
OpenTmp(t) ==
    LET trk == event_trackers[1]
        out == IF pc[t] = "open1"
               THEN display_positions(trk.current_positions, global_user_overrides)
               ELSE IF pc[t] = "open2"
               THEN display_positions(trk.current_positions, trk.user_overrides)
               ELSE display_positions(EmptyDict, trk.user_overrides)
    IN  /\ pc[t] \in {"open1", "open2", "open"}
        /\ disk' = [disk EXCEPT ![1].tmp_file = open_w(@)]
        /\ loc' = [loc EXCEPT ![t].out = out, ![t].fd = "tmp"]
        /\ pc' = [pc EXCEPT ![t] = IF pc[t] = "open1" THEN "close1"
                                   ELSE IF pc[t] = "open2" THEN "close2" ELSE "close"]
        /\ UNCHANGED <<events, registry, failed_auth_times, event_trackers, now, response, stdout>>

\* json.dump and the end of the with block: the output reaches the file the
\* thread holds open, whatever path names it by now
CloseTmp(t) ==
    /\ pc[t] \in {"close1", "close2", "close"}
    /\ disk' = IF loc[t].fd = "tmp"
               THEN [disk EXCEPT ![1].tmp_file = file_write(@, loc[t].out)]
               ELSE IF loc[t].fd = "pos"
               THEN [disk EXCEPT ![1].positions_file = file_write(@, loc[t].out)]
               ELSE disk
    /\ loc' = [loc EXCEPT ![t].fd = "none"]
    /\ pc' = [pc EXCEPT ![t] = IF pc[t] = "close1" THEN "rename1"
                               ELSE IF pc[t] = "close2" THEN "rename2" ELSE "rename"]
    /\ UNCHANGED <<events, registry, failed_auth_times, event_trackers, now, response, stdout>>

\* tmp_file.rename(positions_file): the files other threads hold open move
\* with their names
RenameTmp(t) ==
    /\ pc[t] \in {"rename1", "rename2", "rename"}
    /\ disk' = [disk EXCEPT ![1] = rename_tmp(@)]
    /\ loc' = IF disk[1].tmp_file.exists
              THEN [u \in Threads |->
                      [loc[u] EXCEPT !.fd = IF @ = "tmp" THEN "pos"
                                            ELSE IF @ = "pos" THEN "gone" ELSE @]]
              ELSE loc
    /\ pc' = [pc EXCEPT ![t] = IF pc[t] = "rename1" THEN "log" ELSE "idle"]
    /\ UNCHANGED <<events, registry, failed_auth_times, event_trackers, now, response, stdout>>

\* The track log line of an accepted single position, then the return to
\* EventTracker.process_position, which writes the snapshot again
LogEntry(t) ==
    /\ pc[t] = "log"
    /\ disk' = [disk EXCEPT ![1] = DailyLogger_write(@, track_entry(loc[t].a))]
    /\ pc' = [pc EXCEPT ![t] = "open2"]
    /\ UNCHANGED <<events, registry, failed_auth_times, event_trackers, now, response, stdout, loc>>

\* clear_tracks: daily_logger.clear_today()
ClearToday(t) ==
    /\ pc[t] = "idle"
    /\ Cardinality(DOMAIN disk[1].logs) <= MaxClears
    /\ disk' = [disk EXCEPT ![1] = DailyLogger_clear_today(@)]
    /\ pc' = [pc EXCEPT ![t] = "unlink"]
    /\ UNCHANGED <<events, registry, failed_auth_times, event_trackers, now, response, stdout, loc>>

\* clear_tracks: positions_file.unlink() when the file exists
Unlink(t) ==
    /\ pc[t] = "unlink"
    /\ disk' = [disk EXCEPT ![1].positions_file = MissingPositionsFile]
    /\ loc' = IF disk[1].positions_file.exists
              THEN [u \in Threads |-> [loc[u] EXCEPT !.fd = IF @ = "pos" THEN "gone" ELSE @]]
              ELSE loc
    /\ pc' = [pc EXCEPT ![t] = "clear"]
    /\ UNCHANGED <<events, registry, failed_auth_times, event_trackers, now, response, stdout>>

\* clear_tracks: position_tracker.clear()
Clear(t) ==
    /\ pc[t] = "clear"
    /\ event_trackers' = [event_trackers EXCEPT ![1] = PositionTracker_clear(@)]
    /\ pc' = [pc EXCEPT ![t] = "open"]
    /\ UNCHANGED <<events, registry, failed_auth_times, disk, now, response, stdout, loc>>

\* Event 1 with its tracker built on an empty directory, all threads idle
InitConc ==
    /\ events = [eid \in {1} |-> OpenEvent]
    /\ registry = Installed(events)
    /\ failed_auth_times = EmptyDict
    /\ event_trackers = [eid \in {1} |-> EventTracker_init(EmptyEventDir).trk]
    /\ disk = [eid \in {1} |-> EventTracker_init(EmptyEventDir).dsk]
    /\ now = 0
    /\ response = Reply(0, "", "none", 0)
    /\ stdout = Line("startup", "", <<>>, 0, "", -1, -1, FALSE)
    /\ pc = [t \in Threads |-> "idle"]
    /\ loc = [t \in Threads |-> IdleLoc]

NextConc ==
    \/ \E t \in ReportThreads, packet \in ConcPackets : Begin(t, packet)
    \/ \E t \in ReportThreads : Check(t)
    \/ \E t \in ReportThreads : Update(t)
    \/ \E t \in ReportThreads : OpenTmp(t)
    \/ \E t \in ReportThreads : CloseTmp(t)
    \/ \E t \in ReportThreads : RenameTmp(t)
    \/ \E t \in ReportThreads : LogEntry(t)

\* Two threads report to event 1 at the same time
SpecConc == InitConc /\ [][NextConc]_vars

NextSnap ==
    \/ \E t \in ReportThreads, packet \in SnapPackets : Begin(t, packet)
    \/ \E t \in ReportThreads : Check(t)
    \/ \E t \in ReportThreads : Update(t)
    \/ \E t \in Threads : OpenTmp(t)
    \/ \E t \in Threads : CloseTmp(t)
    \/ \E t \in Threads : RenameTmp(t)
    \/ \E t \in ReportThreads : LogEntry(t)
    \/ ClearToday("admin")
    \/ Unlink("admin")
    \/ Clear("admin")

\* The snapshot writers of event 1: two reporting threads and clear_tracks
SpecSnap == InitConc /\ [][NextSnap]_vars

(***************************************************************************)
(* Admin requests                                                          *)
(***************************************************************************)
\* The request's password is the event's admin password and its address is
\* not rate-limited
AdminAllowed(eid, client_ip, password) ==
    /\ eid \in DOMAIN events
    /\ password = events[eid].admin_password
    /\ ~Blocked(client_ip)
\* The request took no effect and returned no data: nothing but the
\* rate-limit table changed
AdminNoEffect ==
    /\ events' = events /\ registry' = registry
    /\ event_trackers' = event_trackers /\ disk' = disk
    /\ response'.msg = ""

\* The paths of the admin requests; the console line of a request names its
\* method and its event
AdminPaths == AdminPosts \cup AdminDeletes \cup {"users"}

\* The claim as stated, for the events of the registry: a request that is
\* not allowed is answered 401 and changes nothing but the rate-limit table
C22_Rejected401 ==
    [][\A op \in AdminPaths, password \in AdminPasswords :
          (/\ stdout'.eid \in DOMAIN events
           /\ ~AdminAllowed(stdout'.eid, IpA, password)
           /\ AdminRequest(stdout'.source, stdout'.eid, op, IpA, password))
              => (response'.status = 401 /\ AdminNoEffect)]_vars

\* The status of a request that is not allowed: _handle_event_post and
\* _handle_event_get answer 404 for an unknown event, and _handle_event_post
\* 400 for an archived one, before they test the password
RejectedStatus(method, eid) ==
    IF method # "DELETE" /\ eid \notin DOMAIN events THEN 404
    ELSE IF method = "POST" /\ events[eid].archived THEN 400
    ELSE 401

C22_Step(method, eid) ==
    /\ AdminNoEffect
    /\ response'.status = RejectedStatus(method, eid)

\* C22: no per-event admin operation (GET users, clear-tracks, course save,
\* course delete, override upsert, override removal) takes effect or
\* returns data unless the request's X-Admin-Password equals the event's
\* admin_password and the client address is not rate-limited.  A request
\* that is not allowed changes no state other than the rate-limit table; it
\* is answered 401, except that a POST or GET for an unknown event is
\* answered 404 and a POST to an archived event 400.
C22_AdminAuth ==
    [][\A op \in AdminPaths, password \in AdminPasswords :
          (/\ ~AdminAllowed(stdout'.eid, IpA, password)
           /\ AdminRequest(stdout'.source, stdout'.eid, op, IpA, password))
              => C22_Step(stdout'.source, stdout'.eid)]_vars

\* A request with the right password from a rate-limited address was
\* answered 401, after which the course saved earlier is still in place
C22_Witness ==
    /\ stdout.kind = "admin auth failed" /\ response.status = 401
    /\ Blocked(IpA) /\ failed_auth_times[IpA] < now
    /\ 0 \in DOMAIN disk[1].courses
    /\ 1 \in DOMAIN event_trackers /\ IdA \in DOMAIN event_trackers[1].user_overrides

\* The directory of an event whose manager has made tracker a a hidden
\* support boat named n
ShownOverrides ==
    DictSet(EmptyDict, IdA, [name |-> <<"n">>, role |-> Str_support, hidden |-> TRUE])
ShownEventDir ==
    [EmptyEventDir EXCEPT !.users_file = [exists |-> TRUE, users |-> ShownOverrides]]

\* Event 1 with its tracker built on that directory, all threads idle
InitShown ==
    /\ events = [eid \in {1} |-> OpenEvent]
    /\ registry = Installed(events)
    /\ failed_auth_times = EmptyDict
    /\ event_trackers = [eid \in {1} |-> EventTracker_init(ShownEventDir).trk]
    /\ disk = [eid \in {1} |-> EventTracker_init(ShownEventDir).dsk]
    /\ now = 0
    /\ response = Reply(0, "", "none", 0)
    /\ stdout = Line("startup", "", <<>>, 0, "", -1, -1, FALSE)
    /\ pc = [t \in Threads |-> "idle"]
    /\ loc = [t \in Threads |-> IdleLoc]

\* Two threads report to event 1, which has user overrides
SpecShown == InitShown /\ [][NextConc]_vars

(***************************************************************************)
(* get_event_tracker under its callers' threads.  loc["map"] holds the     *)
(* holder of _event_trackers_lock ("" when it is free), the EventTracker   *)
(* objects constructed so far (created: the eid of each, in order; an      *)
(* object is known by its index), the object _event_trackers holds for     *)
(* each eid (instance) and the objects the calls have returned for each    *)
(* eid (returned).  loc[t] holds the eid of the thread's call.             *)
(***************************************************************************)
GetEids == {1, 2, 3}
TrackerMap == loc["map"]

\* A lock that is always free
lock_is_free_always(holder) == TRUE
\* "with _event_trackers_lock": the lock can be taken
lock_is_free(holder) == holder = ""

InitGet ==
    /\ events = [eid \in {1, 2} |-> OpenEvent]
    /\ registry = Installed(events)
    /\ failed_auth_times = EmptyDict
    /\ event_trackers = EmptyDict
    /\ disk = [eid \in {1, 2} |-> EmptyEventDir]
    /\ now = 0
    /\ response = Reply(0, "", "none", 0)
    /\ stdout = Line("startup", "", <<>>, 0, "", -1, -1, FALSE)
    /\ pc = [t \in Threads |-> "idle"]
    /\ loc = [t \in Threads \cup {"map"} |->
                 IF t = "map"
                 THEN [ holder |-> "", created |-> <<>>, instance |-> EmptyDict,
                        returned |-> [eid \in GetEids |-> {}] ]
                 ELSE [eid |-> 0]]

GetStep(t, next_pc, next_loc) ==
    /\ pc' = [pc EXCEPT ![t] = next_pc]
    /\ loc' = next_loc
    /\ UNCHANGED <<events, registry, failed_auth_times, now, response, stdout>>

\* get_event_tracker(eid) is called
GetBegin(t, eid) ==
    /\ pc[t] = "idle"
    /\ GetStep(t, "get_event", [loc EXCEPT ![t].eid = eid])
    /\ UNCHANGED <<event_trackers, disk>>

\* "event = _event_manager.get_event(eid)": None is returned when the
\* registry has no such event
GetEvent(t) ==
    /\ pc[t] = "get_event"
    /\ IF loc[t].eid \in DOMAIN events
       THEN GetStep(t, "acquire", loc)
       ELSE GetStep(t, "idle", [loc EXCEPT ![t].eid = 0])
    /\ UNCHANGED <<event_trackers, disk>>

\* "with _event_trackers_lock:"
GetAcquire(t) ==
    /\ pc[t] = "acquire"
    /\ lock_is_free(TrackerMap.holder)
    /\ GetStep(t, "test", [loc EXCEPT !["map"].holder = t])
    /\ UNCHANGED <<event_trackers, disk>>

\* "if eid not in _event_trackers"
GetTest(t) ==
    /\ pc[t] = "test"
    /\ GetStep(t, IF loc[t].eid \in DOMAIN TrackerMap.instance THEN "return" ELSE "create", loc)
    /\ UNCHANGED <<event_trackers, disk>>

\* "_event_trackers[eid] = EventTracker(eid, data_dir, event)"
GetCreate(t) ==
    /\ pc[t] = "create"
    /\ LET r == EventTracker_init(event_dir(St, loc[t].eid))
       IN  /\ event_trackers' = DictSet(event_trackers, loc[t].eid, r.trk)
           /\ disk' = DictSet(disk, loc[t].eid, r.dsk)
    /\ GetStep(t, "return",
               [loc EXCEPT !["map"].created = Append(@, loc[t].eid),
                           !["map"].instance =
                               DictSet(@, loc[t].eid, Len(TrackerMap.created) + 1)])

\* "return _event_trackers[eid]", and the lock is released
GetReturn(t) ==
    /\ pc[t] = "return"
    /\ GetStep(t, "idle",
               [loc EXCEPT !["map"].holder = IF @ = t THEN "" ELSE @,
                           !["map"].returned[loc[t].eid] =
                               @ \cup {TrackerMap.instance[loc[t].eid]},
                           ![t].eid = 0])
    /\ UNCHANGED <<event_trackers, disk>>

NextGet ==
    \/ \E t \in Threads, eid \in GetEids : GetBegin(t, eid)
    \/ \E t \in Threads : GetEvent(t)
    \/ \E t \in Threads : GetAcquire(t)
    \/ \E t \in Threads : GetTest(t)
    \/ \E t \in Threads : GetCreate(t)
    \/ \E t \in Threads : GetReturn(t)

\* Concurrent calls of get_event_tracker
SpecGet == InitGet /\ [][NextGet]_vars

(***************************************************************************)
(* The DailyLogger of event 1 under its callers' threads.  The log file of *)
(* local date d is named LogName(d, 0) in disk[1].logs and its n-th        *)
(* rotation LogName(d, n).  loc["logger"] holds the logger's tz, the        *)
(* timezone of the event when the logger was made, its current_date, its   *)
(* log_fh (0 for None, else the index of a file object) and the file       *)
(* objects opened so far, each with the name its file has now and whether  *)
(* it was closed.  The udp and http threads call write for an accepted     *)
(* report, the admin thread calls clear_today; loc[t] holds the thread's   *)
(* call (op), its entry, the date and the file object it has read, and how *)
(* its last write ended.                                                   *)
(***************************************************************************)
LogNameBase == 10
LogName(d, n) == d * LogNameBase + n
LogWriters == {"udp", "http"}
LogThreads == LogWriters \cup {"admin"}
Logger == loc["logger"]
\* The udp thread logs a report of tracker a, the http thread one of b
LogEntryOf(t) ==
    track_entry(report_args(sanitize_tracker_packet(
        MkPacket(IF t = "udp" THEN IdA ELSE IdB, 1, 1, 10, 30))))
\* A thread that is in no call of the logger
IdleLogLoc(outcome) ==
    [op |-> "", entry |-> <<>>, today |-> 0, fh |-> 0, outcome |-> outcome]

\* _get_today_in_tz of the logger of event 1: datetime.now(self.tz).date()
LoggerToday == (now + Logger.tz) \div DayLen
\* The lines of all the log files of event 1
LoggedLines == UNION {{<<name, i>> : i \in 1..Len(disk[1].logs[name])} : name \in DOMAIN disk[1].logs}

InitLogger ==
    /\ events = [eid \in {1} |-> OpenEvent]
    /\ registry = Installed(events)
    /\ failed_auth_times = EmptyDict
    /\ event_trackers = [eid \in {1} |-> NoTracker]
    /\ disk = [eid \in {1} |-> [EmptyEventDir EXCEPT !.logs = DictSet(EmptyDict, 0, <<>>)]]
    /\ now = 0
    /\ response = Reply(0, "", "none", 0)
    /\ stdout = Line("startup", "", <<>>, 0, "", -1, -1, FALSE)
    /\ pc = [t \in LogThreads |-> "idle"]
    /\ loc = [t \in LogThreads \cup {"logger"} |->
                 IF t = "logger"
                 THEN [ tz |-> events[1].timezone, current_date |-> 0, log_fh |-> 1,
                        files |-> <<[name |-> 0, closed |-> FALSE]>> ]
                 ELSE IdleLogLoc("")]

\* A step of thread t that leaves the files alone
LoggerStep(t, next_pc, next_loc) ==
    /\ pc' = [pc EXCEPT ![t] = next_pc]
    /\ loc' = next_loc
    /\ UNCHANGED <<events, registry, failed_auth_times, event_trackers, now, response, stdout>>

\* After _open_log_for_today, write goes on to its log_fh.write and
\* clear_today to its close
AfterOpen(t) == IF loc[t].op = "write" THEN "load" ELSE "close"

\* DailyLogger.write(entry) is called
LogBegin(t) ==
    /\ pc[t] = "idle"
    /\ Cardinality(LoggedLines) < MaxLogLines
    /\ LoggerStep(t, "check", [loc EXCEPT ![t].op = "write", ![t].entry = LogEntryOf(t),
                                          ![t].outcome = ""])
    /\ UNCHANGED disk

\* DailyLogger.clear_today() is called
ClearBegin(t) ==
    /\ pc[t] = "idle"
    /\ Cardinality(DOMAIN disk[1].logs) <= MaxClears + LoggerToday
    /\ LoggerStep(t, "check", [loc EXCEPT ![t].op = "clear"])
    /\ UNCHANGED disk

\* _open_log_for_today: "if self.current_date != today"
TodayCheck(t) ==
    /\ pc[t] = "check"
    /\ LoggerStep(t, IF Logger.current_date # LoggerToday THEN "close_old" ELSE AfterOpen(t),
                  [loc EXCEPT ![t].today = LoggerToday])
    /\ UNCHANGED disk

\* _open_log_for_today: "if self.log_fh: self.log_fh.close()"
CloseOld(t) ==
    /\ pc[t] = "close_old"
    /\ LoggerStep(t, "set_date",
                  IF Logger.log_fh # 0
                  THEN [loc EXCEPT !["logger"].files[Logger.log_fh].closed = TRUE]
                  ELSE loc)
    /\ UNCHANGED disk

\* _open_log_for_today: "self.current_date = today"
SetDate(t) ==
    /\ pc[t] = "set_date"
    /\ LoggerStep(t, "open_new", [loc EXCEPT !["logger"].current_date = loc[t].today])
    /\ UNCHANGED disk

\* open(log_path, 'a') into self.log_fh, by _open_log_for_today for the date
\* it read and by clear_today for the date of the path it rotated
OpenLog(t, from_pc, next_pc) ==
    /\ pc[t] = from_pc
    /\ disk' = [disk EXCEPT ![1].logs =
                   IF LogName(loc[t].today, 0) \in DOMAIN @ THEN @
                   ELSE DictSet(@, LogName(loc[t].today, 0), <<>>)]
    /\ LoggerStep(t, next_pc,
                  [loc EXCEPT !["logger"].files =
                                  Append(@, [name |-> LogName(loc[t].today, 0), closed |-> FALSE]),
                              !["logger"].log_fh = Len(Logger.files) + 1,
                              ![t] = IF next_pc = "idle" THEN IdleLogLoc("") ELSE @])
OpenNew(t) == OpenLog(t, "open_new", AfterOpen(t))

\* write: self.log_fh is read
LoadHandle(t) ==
    /\ pc[t] = "load"
    /\ LoggerStep(t, "write", [loc EXCEPT ![t].fh = Logger.log_fh])
    /\ UNCHANGED disk

\* write: .write(json.dumps(entry) + "\n") on the object read.  None has no
\* write (AttributeError) and a closed file refuses it (ValueError): the
\* exception leaves DailyLogger.write
WriteLine(t) ==
    /\ pc[t] = "write"
    /\ IF loc[t].fh = 0
       THEN /\ LoggerStep(t, "idle", [loc EXCEPT ![t] = IdleLogLoc("absent")])
            /\ UNCHANGED disk
       ELSE IF Logger.files[loc[t].fh].closed
       THEN /\ LoggerStep(t, "idle", [loc EXCEPT ![t] = IdleLogLoc("closed")])
            /\ UNCHANGED disk
       ELSE /\ disk' = [disk EXCEPT ![1].logs[Logger.files[loc[t].fh].name] =
                                        Append(@, loc[t].entry)]
            /\ LoggerStep(t, "flush", loc)

\* write: self.log_fh.flush(), on the object self.log_fh holds now
FlushLine(t) ==
    /\ pc[t] = "flush"
    /\ LoggerStep(t, "idle",
                  [loc EXCEPT ![t] =
                       IdleLogLoc(IF Logger.log_fh = 0 THEN "absent"
                                  ELSE IF Logger.files[Logger.log_fh].closed THEN "closed"
                                  ELSE "written")])
    /\ UNCHANGED disk

\* clear_today: "if self.log_fh: self.log_fh.close()"
ClearClose(t) ==
    /\ pc[t] = "close"
    /\ LoggerStep(t, IF Logger.log_fh # 0 THEN "forget" ELSE "rotate",
                  IF Logger.log_fh # 0
                  THEN [loc EXCEPT !["logger"].files[Logger.log_fh].closed = TRUE]
                  ELSE loc)
    /\ UNCHANGED disk

\* clear_today: "self.log_fh = None"
ClearForget(t) ==
    /\ pc[t] = "forget"
    /\ LoggerStep(t, "rotate", [loc EXCEPT !["logger"].log_fh = 0])
    /\ UNCHANGED disk

\* The rotations of the log of date d, under the names rotate_file sees
DayLogs(logs, d) ==
    [n \in {m \in 0..(LogNameBase - 1) : LogName(d, m) \in DOMAIN logs} |-> logs[LogName(d, n)]]

\* clear_today: rotate_file(log_path) for today's path; the file objects
\* open on the file follow it to its new name
ClearRotate(t) ==
    /\ pc[t] = "rotate"
    /\ LET d       == LoggerToday
           rotated == rotate_file(DayLogs(disk[1].logs, d))
           other   == {name \in DOMAIN disk[1].logs : name \div LogNameBase # d}
           moved   == CHOOSE n \in DOMAIN rotated \cup {0} :
                          n \notin DOMAIN DayLogs(disk[1].logs, d) \/ n = 0
       IN  /\ disk' = [disk EXCEPT ![1].logs =
                          [name \in other \cup {LogName(d, n) : n \in DOMAIN rotated} |->
                              IF name \in other THEN disk[1].logs[name]
                              ELSE rotated[name % LogNameBase]]]
           /\ LoggerStep(t, "reopen",
                  [loc EXCEPT ![t].today = d,
                              !["logger"].files =
                                  [i \in DOMAIN @ |->
                                      IF @[i].name = LogName(d, 0)
                                      THEN [@[i] EXCEPT !.name = LogName(d, moved)]
                                      ELSE @[i]]])

\* clear_today: "self.log_fh = open(log_path, 'a')"
ClearReopen(t) == OpenLog(t, "reopen", "idle")

\* The local date of event 1 changes
NextDay ==
    /\ now + DayLen < DayLen * MaxDays
    /\ now' = now + DayLen
    /\ UNCHANGED <<events, registry, failed_auth_times, event_trackers, disk, response, stdout, pc, loc>>

NextLogger ==
    \/ \E t \in LogWriters : LogBegin(t)
    \/ ClearBegin("admin")
    \/ \E t \in LogThreads : TodayCheck(t)
    \/ \E t \in LogThreads : CloseOld(t)
    \/ \E t \in LogThreads : SetDate(t)
    \/ \E t \in LogThreads : OpenNew(t)
    \/ \E t \in LogWriters : LoadHandle(t)
    \/ \E t \in LogWriters : WriteLine(t)
    \/ \E t \in LogWriters : FlushLine(t)
    \/ ClearClose("admin")
    \/ ClearForget("admin")
    \/ ClearRotate("admin")
    \/ ClearReopen("admin")
    \/ NextDay

\* Appends to the daily log of event 1 beside clear_today and the change of
\* the date
SpecLogger == InitLogger /\ [][NextLogger]_vars

(***************************************************************************)
(* The DailyLogger of event 1 while the manager changes the event's        *)
(* timezone and the time passes, its calls one at a time                   *)
(***************************************************************************)
\* DailyLogger.write(entry) as a whole: the log of the logger's date is
\* opened when the date has changed, and the line is appended to it
DailyLogger_write_today(logger, logs, today, entry) ==
    LET name   == LogName(today, 0)
        opened == IF logger.current_date # today /\ name \notin DOMAIN logs
                  THEN DictSet(logs, name, <<>>) ELSE logs
    IN  [ logger |-> IF logger.current_date # today
                     THEN [logger EXCEPT
                              !.current_date = today,
                              !.files = Append(
                                  [i \in DOMAIN @ |->
                                      IF i = logger.log_fh THEN [@[i] EXCEPT !.closed = TRUE]
                                      ELSE @[i]],
                                  [name |-> name, closed |-> FALSE]),
                              !.log_fh = Len(logger.files) + 1]
                     ELSE logger,
          logs |-> [opened EXCEPT ![name] = Append(@, entry)] ]

\* An accepted report of tracker a reaches daily_logger.write
DatedWrite ==
    /\ Cardinality(LoggedLines) < MaxLogLines
    /\ LET r == DailyLogger_write_today(Logger, disk[1].logs, LoggerToday, LogEntryOf("udp"))
       IN  /\ loc' = [loc EXCEPT !["logger"] = r.logger]
           /\ disk' = [disk EXCEPT ![1].logs = r.logs]
    /\ stdout' = Line("logged", "", IdA, 1, "", -1, -1, FALSE)
    /\ UNCHANGED <<events, registry, failed_auth_times, event_trackers, now, response, pc>>

\* Half a day passes
HalfDay ==
    /\ now + DayLen \div 2 < DayLen * MaxDays
    /\ now' = now + DayLen \div 2
    /\ UNCHANGED <<events, registry, failed_auth_times, event_trackers, disk, response, stdout, pc, loc>>

NextDated ==
    \/ DatedWrite
    \/ \E tz \in Timezones : UpdateEvent(1, [timezone |-> tz])
    \/ HalfDay

SpecDated == InitLogger /\ [][NextDated]_vars

(***************************************************************************)
(* The summary generators and log compressors.  run_server starts one of   *)
(* each for every event the registry lists at that time; loc["workers"]    *)
(* holds the events they were started for and the last_mtime dict of each  *)
(* compressor.  loc["logs_dir"] holds, for each event, what its logs       *)
(* directory has beside the log files of disk: the st_mtime of every log,  *)
(* counted in the writes made in the directory (clock), the                *)
(* <date>_live.jsonl.gz and <date>.jsonl.gz files and the                  *)
(* <date>_summary.json files, each under the LogName of its date and with  *)
(* its own mtime.                                                          *)
(***************************************************************************)
live_window == check_interval   \* live_window_minutes, in ticks
MaxWrites == 6                  \* the workers run while a directory has seen fewer writes
EmptyLogsDir ==
    [ clock |-> 0, mtimes |-> EmptyDict, live_gz |-> EmptyDict, full_gz |-> EmptyDict,
      summaries |-> EmptyDict ]
LogsDir(eid) == IF eid \in DOMAIN loc["logs_dir"] THEN loc["logs_dir"][eid] ELSE EmptyLogsDir
Started == loc["workers"].started
\* The report a tracker sends now
WorkerEntry == track_entry(report_args(sanitize_tracker_packet(MkPacket(IdA, 1, now, 10, 30))))

\* date.today(): the date in the timezone of the server, which is UTC
ServerToday == now \div DayLen

\* open(log_path, 'a') and log_fh.write of the DailyLogger: the line is
\* appended to the log named name and the file has a new mtime
log_append(logs, dir, name, entry) ==
    [ logs |-> IF name \in DOMAIN logs THEN [logs EXCEPT ![name] = Append(@, entry)]
               ELSE DictSet(logs, name, <<entry>>),
      dir  |-> [dir EXCEPT !.clock = @ + 1, !.mtimes = DictSet(@, name, dir.clock + 1)] ]

\* The lines the compressor keeps in the live file: entry_ts >= cutoff_ts
live_lines(lines, cutoff_ts) == SelectSeq(lines, LAMBDA entry : entry.ts >= cutoff_ts)

\* One pass of the loop of run_log_compressor over a logs directory.
\* raises names where the pass raises: "" nowhere, "live" while the live
\* file is written, "full" while the full file is written
compressor_pass(logs, dir, last_mtime, today, cutoff_ts, raises) ==
    LET log_file      == LogName(today, 0)
        current_mtime == dir.mtimes[log_file]
        cached_mtime  == IF log_file \in DOMAIN last_mtime THEN last_mtime[log_file] ELSE 0
        with_live     == [dir EXCEPT
                             !.clock = @ + 1,
                             !.live_gz = DictSet(@, log_file,
                                 [ mtime |-> dir.clock + 1,
                                   lines |-> live_lines(logs[log_file], cutoff_ts) ])]
        with_full     == [with_live EXCEPT
                             !.clock = @ + 1,
                             !.full_gz = DictSet(@, log_file,
                                 [mtime |-> dir.clock + 2, lines |-> logs[log_file]])]
    IN  IF log_file \notin DOMAIN logs THEN [dir |-> dir, last_mtime |-> last_mtime]
        ELSE IF ~(current_mtime > cached_mtime) THEN [dir |-> dir, last_mtime |-> last_mtime]
        ELSE IF raises = "live" THEN [dir |-> dir, last_mtime |-> last_mtime]
        ELSE IF raises = "full" THEN [dir |-> with_live, last_mtime |-> last_mtime]
        ELSE [dir |-> with_full, last_mtime |-> DictSet(last_mtime, log_file, current_mtime)]

\* The dates that have a log file; rotations are named LogName(d, n)
log_dates(logs) == {name \div LogNameBase : name \in DOMAIN logs}
date_files(logs, d) == {name \in DOMAIN logs : name \div LogNameBase = d}
\* point_count over the log files of a date
point_count(logs, d) ==
    LET Sum[names \in SUBSET date_files(logs, d)] ==
            IF names = {} THEN 0
            ELSE LET name == CHOOSE n \in names : TRUE
                 IN  Len(logs[name]) + Sum[names \ {name}]
    IN  Sum[date_files(logs, d)]
newest_log_mtime(dir, logs, d) ==
    LET names == date_files(logs, d)
    IN  CHOOSE m \in {dir.mtimes[n] : n \in names} : \A n \in names : dir.mtimes[n] <= m
\* Whether generate_log_summaries writes the summary of date d
summary_stale(dir, logs, d) ==
    LET summary_file == LogName(d, 0)
    IN  /\ ~(/\ summary_file \in DOMAIN dir.summaries
             /\ dir.summaries[summary_file].mtime >= newest_log_mtime(dir, logs, d))
        /\ point_count(logs, d) > 0
\* generate_log_summaries over a logs directory
generate_log_summaries(logs, dir) ==
    LET stale == {d \in log_dates(logs) : summary_stale(dir, logs, d)}
        n     == Cardinality(stale)
    IN  [dir EXCEPT
            !.clock = @ + n,
            !.summaries = [name \in DOMAIN @ \cup {LogName(d, 0) : d \in stale} |->
                              IF name \div LogNameBase \in stale
                              THEN [mtime |-> dir.clock + n,
                                    points |-> point_count(logs, name \div LogNameBase)]
                              ELSE @[name]]]

\* An accepted report to event eid is logged
WorkerFits == \A e \in DOMAIN disk : \A name \in DOMAIN disk[e].logs : Len(disk[e].logs[name]) < MaxLogLines
LogAppend(eid) ==
    /\ eid \in DOMAIN events
    /\ WorkerFits
    /\ LET r == log_append(event_dir(St, eid).logs, LogsDir(eid),
                           LogName(today_in_tz(St, events[eid]), 0), WorkerEntry)
       IN  /\ disk' = DictSet(disk, eid, [event_dir(St, eid) EXCEPT !.logs = r.logs])
           /\ loc' = [loc EXCEPT !["logs_dir"] = DictSet(@, eid, r.dir)]
    /\ stdout' = Line("logged", "", IdA, eid, "", now, -1, FALSE)
    /\ UNCHANGED <<events, registry, failed_auth_times, event_trackers, now, response, pc>>

\* The compressor thread of event eid wakes and makes one pass
CompressorTick(eid, raises) ==
    /\ eid \in Started
    /\ LogsDir(eid).clock < MaxWrites
    /\ LET r == compressor_pass(disk[eid].logs, LogsDir(eid), loc["workers"].last_mtime[eid],
                                ServerToday, now - live_window, raises)
       IN  loc' = [loc EXCEPT !["logs_dir"] = DictSet(@, eid, r.dir),
                              !["workers"].last_mtime[eid] = r.last_mtime]
    /\ stdout' = Line("compress", raises, <<>>, eid, "", now, -1, FALSE)
    /\ UNCHANGED <<events, registry, failed_auth_times, event_trackers, disk, now, response, pc>>

\* The summary thread of event eid wakes and makes one pass
SummaryTick(eid) ==
    /\ eid \in Started
    /\ LogsDir(eid).clock < MaxWrites
    /\ loc' = [loc EXCEPT !["logs_dir"] =
                   DictSet(@, eid, generate_log_summaries(disk[eid].logs, LogsDir(eid)))]
    /\ stdout' = Line("summary", "", <<>>, eid, "", now, -1, FALSE)
    /\ UNCHANGED <<events, registry, failed_auth_times, event_trackers, disk, now, response, pc>>

\* run_server has started the workers of the events listed, event 1 with
\* the timezone tz
InitWorkers(tz) ==
    /\ events = [eid \in {1} |-> [OpenEvent EXCEPT !.timezone = tz]]
    /\ registry = Installed(events)
    /\ failed_auth_times = EmptyDict
    /\ event_trackers = [eid \in {1} |-> NoTracker]
    /\ disk = [eid \in {1} |-> EmptyEventDir]
    /\ now = 0
    /\ response = Reply(0, "", "none", 0)
    /\ stdout = Line("startup", "", <<>>, 0, "", -1, -1, FALSE)
    /\ pc = NoThreads
    /\ loc = [k \in {"workers", "logs_dir"} |->
                 IF k = "workers"
                 THEN [started |-> DOMAIN events, last_mtime |-> [eid \in DOMAIN events |-> EmptyDict]]
                 ELSE [eid \in DOMAIN events |-> EmptyLogsDir]]

Compressors == {"", "live", "full"}

\* The events of the registry in the timezone of the server, created before
\* and after the workers were started
InitStarted == InitWorkers(0)
NextStarted ==
    \/ CreateEvent(OpenEvent, TRUE)
    \/ \E eid \in 1..MaxEvents : LogAppend(eid)
    \/ \E eid \in 1..MaxEvents, raises \in Compressors : CompressorTick(eid, raises)
    \/ \E eid \in 1..MaxEvents : SummaryTick(eid)
SpecStarted == InitStarted /\ [][NextStarted]_vars

\* Event 1 in any timezone while the days pass
InitCompress == \E tz \in Timezones : InitWorkers(tz)
NextCompress ==
    \/ LogAppend(1)
    \/ \E raises \in Compressors : CompressorTick(1, raises)
    \/ HalfDay
SpecCompress == InitCompress /\ [][NextCompress]_vars

(***************************************************************************)
(* Concurrent calls                                                        *)
(***************************************************************************)
Quiescent == \A t \in Threads : pc[t] = "idle"

\* C2: under any interleaving of process_position calls for one event, the
\* ts stored in the live table for a tracker never decreases, and whenever
\* no call is in progress the ts of each live entry equals the tracker's
\* last_timestamp.
C2_AtomicDecisionAndUpdate ==
    [][/\ \A T \in DOMAIN LivePositions(1) :
             LivePositions(1)'[T].ts >= LivePositions(1)[T].ts
       /\ Quiescent' =>
             \A T \in DOMAIN LastTimestamp(1)' :
                 /\ T \in DOMAIN LivePositions(1)'
                 /\ LivePositions(1)'[T].ts = LastTimestamp(1)'[T]]_vars

\* C3: at every moment current_positions.json exists and its content is
\* exactly the complete output of one write_current_positions call: it is
\* never missing, partial, or a mixture of two outputs.
C3_SnapshotWhole == Snapshot(1).exists /\ Snapshot(1).whole

\* The snapshot of event 1 shows the live table: the same tracker ids, each
\* with the ts and the position of its live entry
SnapshotShowsLive ==
    /\ DOMAIN Snapshot(1).sailors = DOMAIN LivePositions(1)
    /\ \A T \in DOMAIN LivePositions(1) :
          /\ Snapshot(1).sailors[T].ts = LivePositions(1)[T].ts
          /\ Snapshot(1).sailors[T].lat = LivePositions(1)[T].lat
          /\ Snapshot(1).sailors[T].lon = LivePositions(1)[T].lon

\* C24: whenever no operation is in progress on an event, the sailors map
\* of its current_positions.json has exactly the tracker ids of the live
\* table, each with the same ts and position, whatever the interleaving of
\* reports and clear_tracks before.
C24_SnapshotConverges == Quiescent => SnapshotShowsLive

\* C25: under any interleaving of the appends of the UDP thread and the
\* HTTP threads with clear_today and the change of the date, no append is
\* attempted against a closed or an absent handle: every write ends with
\* its line written to the open daily log.
C25_AppendsComplete ==
    \A t \in LogWriters : loc[t].outcome \notin {"closed", "absent"}

\* The snapshot entry of sailor_id carries the override
OverrideApplied(entry, override) ==
    /\ "name" \in DOMAIN override =>
           ("name" \in DOMAIN entry /\ entry["name"] = override["name"])
    /\ "role" \in DOMAIN override => entry["role"] = override["role"]
    /\ ("hidden" \in DOMAIN override /\ override["hidden"]) =>
           ("hidden" \in DOMAIN entry /\ entry["hidden"])

\* C26: every snapshot written to current_positions.json while a report is
\* processed has the event's user overrides applied: at no moment does the
\* file show a tracker without its current override.
C26_OverridesPublished ==
    (Snapshot(1).exists /\ Snapshot(1).whole) =>
        \A sailor_id \in DOMAIN Snapshot(1).sailors \cap DOMAIN UserOverrides(1) :
            OverrideApplied(Snapshot(1).sailors[sailor_id], UserOverrides(1)[sailor_id])

\* C27: under any interleaving of concurrent get_event_tracker calls, at
\* most one EventTracker is constructed per eid, every call for an eid
\* returns that one object, the map's entry for an eid is never removed or
\* replaced, and a call for an eid the registry does not hold constructs
\* nothing.
C27_OneTrackerPerEvent ==
    /\ \A i, j \in 1..Len(TrackerMap.created) :
          TrackerMap.created[i] = TrackerMap.created[j] => i = j
    /\ \A i \in 1..Len(TrackerMap.created) :
          /\ TrackerMap.created[i] \in DOMAIN TrackerMap.instance
          /\ TrackerMap.instance[TrackerMap.created[i]] = i
    /\ \A eid \in GetEids :
          TrackerMap.returned[eid] # {} =>
              (eid \in DOMAIN TrackerMap.instance
                   /\ TrackerMap.returned[eid] = {TrackerMap.instance[eid]})
    /\ DOMAIN event_trackers = DOMAIN TrackerMap.instance
    /\ DOMAIN event_trackers \subseteq DOMAIN events

\* Calls for event 1 are under way at once, after the tracker of event 2 was
\* constructed: one call has constructed the tracker of event 1 and returned
\* it, a second holds the lock and is about to return, a third waits
C27_Witness ==
    /\ TrackerMap.created = <<2, 1>>
    /\ TrackerMap.returned[1] = {2}
    /\ \E t \in Threads : pc[t] = "acquire" /\ loc[t].eid = 1
    /\ \E t \in Threads : pc[t] = "return" /\ loc[t].eid = 1

\* The "Auto-cleared" lines of eid for the local date d
ClearsOf(eid, d) ==
    {i \in 1..Len(Worker.cleared_log) :
        Worker.cleared_log[i][1] = eid /\ Worker.cleared_log[i][2] = d}
\* The local time of eid, in ticks, now and when the worker started
LocalNow(eid) == now + events[eid].timezone
LocalStart(eid) == Worker.started + events[eid].timezone
\* The midnight that begins the local date d of eid came while the worker
\* ran, and the window after it is over
MidnightPassed(eid, d) ==
    /\ LocalStart(eid) < d * DayLen
    /\ LocalNow(eid) >= d * DayLen + midnight_window
\* The worker started inside the window of the local date of eid, and its
\* first pass has visited eid
StartedInWindow(eid) ==
    /\ LocalStart(eid) % DayLen < midnight_window
    /\ (now > Worker.started \/ eid \notin Worker.todo)

C29_OthersCleared ==
    \A eid \in DOMAIN events \ RaisingEids :
        \A d \in 0..(MaxDays + 1) :
            MidnightPassed(eid, d) => ClearsOf(eid, d) # {}

\* The log file named for the calendar date of event 1 in the timezone the
\* registry holds for it
RegistryLogName == LogName(today_in_tz(St, events[1]), 0)

\* C30: every log entry is appended to the file named for the calendar date
\* at append time in the event's timezone as the registry holds it, also
\* after update_event has changed the timezone while the tracker exists.
C30_LogNamedForRegistryDate ==
    [][DatedWrite =>
          /\ RegistryLogName \in DOMAIN disk'[1].logs
          /\ Len(disk'[1].logs[RegistryLogName])
                 = 1 + (IF RegistryLogName \in DOMAIN disk[1].logs
                        THEN Len(disk[1].logs[RegistryLogName]) ELSE 0)]_vars

\* The same while the timezone of the event is the one its logger was made
\* with
C30_LogNamedForLoggerDate ==
    [][(DatedWrite /\ events[1].timezone = Logger.tz) =>
          /\ RegistryLogName \in DOMAIN disk'[1].logs
          /\ Len(disk'[1].logs[RegistryLogName])
                 = 1 + (IF RegistryLogName \in DOMAIN disk[1].logs
                        THEN Len(disk[1].logs[RegistryLogName]) ELSE 0)]_vars

\* No worker that was started has anything left to do: a pass of any of
\* them leaves every file as it is
WorkersSettled ==
    \A eid \in Started :
        /\ compressor_pass(disk[eid].logs, LogsDir(eid), loc["workers"].last_mtime[eid],
                           ServerToday, now - live_window, "").dir = LogsDir(eid)
        /\ generate_log_summaries(disk[eid].logs, LogsDir(eid)) = LogsDir(eid)
\* The compressed view and the summary of every log of event eid hold its
\* lines
ViewsHoldLines(eid) ==
    \A name \in DOMAIN event_dir(St, eid).logs :
        LET lines == event_dir(St, eid).logs[name]
        IN  lines # <<>> =>
               /\ name \in DOMAIN LogsDir(eid).full_gz
               /\ LogsDir(eid).full_gz[name].lines = lines
               /\ name \in DOMAIN LogsDir(eid).summaries
               /\ LogsDir(eid).summaries[name].points = Len(lines)

\* C31: for every event in the registry, also one created after the server
\* started, a summary generator and a compressor run over its logs: once the
\* workers have nothing left to do, every line logged for the event is in
\* the summary and the compressed view of its date.
C31_WorkersForEveryEvent ==
    WorkersSettled => \A eid \in DOMAIN events : eid \in Started /\ ViewsHoldLines(eid)

\* The same for the events the registry listed when the server started
C31_WorkersForStartedEvents ==
    WorkersSettled => \A eid \in Started : ViewsHoldLines(eid)

\* The active daily log of event 1: the file named for the current date in
\* the timezone of the event
ActiveLogName == LogName(today_in_tz(St, events[1]), 0)
\* The log named name was modified since the compressor processed it last
ModifiedSince(name) ==
    /\ name \in DOMAIN disk[1].logs
    /\ LogsDir(1).mtimes[name] >
           (IF name \in DOMAIN loc["workers"].last_mtime[1]
            THEN loc["workers"].last_mtime[1][name] ELSE 0)
FileOf(files, name) == IF name \in DOMAIN files THEN Some(files[name]) ELSE None
\* What a pass of the compressor of event 1 does about the log named name
C32_Pass(name, raises) ==
    LET dir == LogsDir(1)
    IN  /\ (raises = "" /\ ModifiedSince(name)) =>
               /\ name \in DOMAIN dir'.live_gz /\ name \in DOMAIN dir'.full_gz
               /\ dir'.live_gz[name] =
                      [mtime |-> dir.clock + 1,
                       lines |-> live_lines(disk[1].logs[name], now - live_window)]
               /\ dir'.full_gz[name] = [mtime |-> dir.clock + 2, lines |-> disk[1].logs[name]]
               /\ loc'["workers"].last_mtime[1][name] = dir.mtimes[name]
        /\ ~ModifiedSince(name) =>
               /\ FileOf(dir'.live_gz, name) = FileOf(dir.live_gz, name)
               /\ FileOf(dir'.full_gz, name) = FileOf(dir.full_gz, name)
        /\ raises # "" => loc'["workers"].last_mtime = loc["workers"].last_mtime

\* C32: when the active daily log of the event, the file named for the
\* current date in the event's timezone, was modified since the compressor
\* processed it last, the next pass regenerates the live and the full
\* compressed file from it; when it was not, the pass rewrites neither; a
\* pass that raises leaves the cached mtime as it was.
C32_ActiveLogCompressed ==
    [][\A raises \in Compressors :
          CompressorTick(1, raises) => C32_Pass(ActiveLogName, raises)]_vars

\* The same for the file named for the current date of the server
C32_ServerLogCompressed ==
    [][\A raises \in Compressors :
          CompressorTick(1, raises) => C32_Pass(LogName(ServerToday, 0), raises)]_vars

\* The ts, lat and lon of the last element of the pos array of a sanitized
\* report that has one, else its top-level ts, lat and lon
C33_Selected(sp) ==
    IF "pos" \in DOMAIN sp /\ sp["pos"] # <<>>
    THEN LET last_pos == sp["pos"][Len(sp["pos"])]
         IN  [ts |-> last_pos[1], lat |-> last_pos[2], lon |-> last_pos[3]]
    ELSE [ts |-> sp.ts, lat |-> sp.lat, lon |-> sp.lon]
C33_Step(packet) ==
    LET sp  == SanitizedPackets[packet]
        sel == C33_Selected(sp)
        T   == sp.id
    IN  /\ stdout'.kind = "position"
        /\ stdout'.dup = SeenBefore(1, T, sel.ts)
        /\ ActiveLog(1)' # ActiveLog(1) => ActiveLog(1)'[Len(ActiveLog(1)')].ts = sel.ts
        /\ IF SeenBefore(1, T, sel.ts)
           THEN /\ LastTimestamp(1)' = LastTimestamp(1)
                /\ LivePositions(1)' = LivePositions(1)
           ELSE /\ LastTimestamp(1)'[T] = sel.ts
                /\ LivePositions(1)'[T].ts = sel.ts
                /\ LivePositions(1)'[T].lat = sel.lat
                /\ LivePositions(1)'[T].lon = sel.lon
                /\ ActiveLog(1)' # ActiveLog(1)

\* C33: with a non-empty pos array in the sanitized report, the duplicate
\* decision, the live entry and the ts of the log entry use the ts, lat and
\* lon of the last element of the array and not the top-level ones; without
\* one they use the top-level ts, lat and lon.  An accepted batch sets
\* last_timestamp to the ts of its last element and the live entry to its
\* lat and lon.
C33_LastSampleSelected ==
    [][\A r \in Reported' : ReportStep(r) => C33_Step(r[1])]_vars

\* A batch of two samples was accepted: its last sample, not the top-level
\* fields, is in the live table, the timestamp table and the log line
C33_Witness ==
    /\ stdout.kind = "position" /\ ~stdout.dup /\ stdout.id = IdA
    /\ LastTimestamp(1)[IdA] = 1
    /\ LivePositions(1)[IdA].ts = 1
    /\ LivePositions(1)[IdA].lat = 10 /\ LivePositions(1)[IdA].lon = 30
    /\ ActiveLog(1) # <<>>
    /\ "pos" \in DOMAIN ActiveLog(1)[Len(ActiveLog(1))]
    /\ Len(ActiveLog(1)[Len(ActiveLog(1))]["pos"]) = 2
    /\ ActiveLog(1)[Len(ActiveLog(1))].ts = 1

\* events.json holds every event of the registry and its next_eid
EventsFileCurrent ==
    /\ registry.events_file.exists
    /\ registry.events_file.events = events
    /\ registry.events_file.next_eid = registry.next_eid
\* create_event or update_event has run with a save that could (ok) or
\* could not be written
C34_Created(event, ok) ==
    /\ response'.status = 200 /\ response'.ack = registry.next_eid
    /\ events' = DictSet(events, registry.next_eid, event)
    /\ registry'.next_eid = registry.next_eid + 1
    /\ IF ok THEN EventsFileCurrent' ELSE registry'.events_file = registry.events_file
C34_Updated(eid, updates, ok) ==
    eid \in DOMAIN events =>
        /\ response'.status = 200
        /\ DOMAIN events' = DOMAIN events
        /\ \A f \in DOMAIN updates : events'[eid][f] = updates[f]
        /\ registry'.next_eid = registry.next_eid
        /\ IF ok THEN EventsFileCurrent' ELSE registry'.events_file = registry.events_file

\* C34: when events.json cannot be written during create_event or
\* update_event, the call succeeds with the registry in memory updated (the
\* new id allocated, next_eid advanced) and events.json as it was; the next
\* save that can be written holds every event in memory and the current
\* next_eid.
C34_SaveFailure ==
    [][\A ok \in BOOLEAN :
          /\ (response'.msg = "created" /\ CreateEvent(ProtectedEvent(<<"p">>), ok))
                 => C34_Created(ProtectedEvent(<<"p">>), ok)
          /\ \A archived \in BOOLEAN :
                 (/\ response'.msg = "success"
                  /\ response'.ack \in DOMAIN events'
                  /\ events'[response'.ack].archived = archived
                  /\ UpdateEventSave(response'.ack, [archived |-> archived], ok))
                     => C34_Updated(response'.ack, [archived |-> archived], ok)]_vars

\* An event was created while events.json could not be written: the
\* registry has it and the file does not
C34_Witness ==
    /\ response.msg = "created" /\ response.status = 200
    /\ response.ack \in DOMAIN events
    /\ registry.next_eid = response.ack + 1
    /\ registry.events_file.exists
    /\ response.ack \notin DOMAIN registry.events_file.events
    /\ registry.events_file.next_eid <= response.ack

\* The file system refuses the writes of kind
Failing(kind) == 1 \in DOMAIN disk /\ kind \in disk[1].failing
\* The live entry of a report with the arguments a
LiveHolds(a) ==
    /\ a.sailor_id \in DOMAIN LastTimestamp(1)' /\ LastTimestamp(1)'[a.sailor_id] = a.ts
    /\ a.sailor_id \in DOMAIN LivePositions(1)'
    /\ LivePositions(1)'[a.sailor_id] = pos_data(a)
C35_Step(packet) ==
    LET a == report_args(SanitizedPackets[packet])
    IN  (~SeenBefore(1, a.sailor_id, a.ts) /\ ~Failing("log")) =>
            /\ response'.error = "" /\ response'.ack = SanitizedPackets[packet].sq
            /\ stdout'.kind = "position" /\ ~stdout'.dup
            /\ LiveHolds(a)
            /\ IF Failing("snapshot")
               THEN Snapshot(1)' = Snapshot(1)
               ELSE /\ Snapshot(1)'.exists /\ Snapshot(1)'.whole
                    /\ Snapshot(1)'.sailors = LivePositions(1)'
                    /\ \A T \in DOMAIN LivePositions(1) \ {a.sailor_id} :
                          Snapshot(1)'.sailors[T] = LivePositions(1)[T]

\* C35: when the snapshot cannot be written while a report that is not a
\* duplicate is processed, the report is acknowledged, the live table and
\* the timestamp table hold it, and the snapshot file is as it was; the next
\* snapshot write that succeeds holds the whole live table, the entries of
\* the reports whose writes failed included.
C35_SnapshotFailure ==
    [][\A r \in Reported' : ReportStep(r) => C35_Step(r[1])]_vars

\* A report of tracker a was accepted while the snapshot could not be
\* written: the snapshot still has tracker b alone
C35_Witness ==
    /\ Failing("snapshot")
    /\ stdout.kind = "position" /\ ~stdout.dup /\ stdout.id = IdA
    /\ LastTimestamp(1)[IdA] = stdout.ts
    /\ LivePositions(1)[IdA].ts = stdout.ts
    /\ Snapshot(1).exists /\ Snapshot(1).whole
    /\ DOMAIN Snapshot(1).sailors = {IdB}

C36_Step(packet) ==
    LET a == report_args(SanitizedPackets[packet])
    IN  /\ (~SeenBefore(1, a.sailor_id, a.ts) /\ Failing("log")) =>
               /\ LiveHolds(a)
               /\ ActiveLog(1)' = ActiveLog(1)
               /\ stdout'.kind = "error"
        /\ SeenBefore(1, a.sailor_id, a.ts) =>
               /\ stdout'.kind = "position" /\ stdout'.dup
               /\ ActiveLog(1)' = ActiveLog(1)
               /\ LastTimestamp(1)' = LastTimestamp(1)
               /\ LivePositions(1)' = LivePositions(1)

\* C36: a report of a single position whose append to the daily log fails
\* leaves last_timestamp and the live table advanced to it; the same report
\* sent again is a duplicate and appends nothing, so the sample does not
\* reach the daily log.
C36_LogFailure ==
    [][\A packet \in SinglePackets :
          (UdpReport(packet, IpA) \/ HttpReport(packet, IpA)) => C36_Step(packet)]_vars

\* A report sent again while the log can be written was a duplicate, and no
\* line of the log has its sample
C36_Witness ==
    /\ ~Failing("log")
    /\ stdout.kind = "position" /\ stdout.dup /\ stdout.id = IdA
    /\ LastTimestamp(1)[IdA] = stdout.ts
    /\ LivePositions(1)[IdA].ts = stdout.ts
    /\ \A i \in DOMAIN ActiveLog(1) :
          ~(ActiveLog(1)[i].id = IdA /\ ActiveLog(1)[i].ts = stdout.ts)

C37_Step(packet, ip) ==
    IF Blocked(ip)
    THEN /\ failed_auth_times' = failed_auth_times
         /\ response'.error = "auth" /\ stdout'.kind = "rate-limited"
    ELSE IF password_matches(SanitizedPackets[packet], events[1])
    THEN /\ failed_auth_times' = failed_auth_times
         /\ Processed'
    ELSE /\ failed_auth_times' = DictSet(failed_auth_times, ip, now)
         /\ response'.error = "auth" /\ stdout'.kind = "auth failed"

\* C37: a report that passes authentication neither adds nor removes an
\* entry of the rate-limit table, and a report rejected because its address
\* is blocked does not refresh the entry: the entry of an address is the
\* time of its last failed password comparison, and the address is let
\* through again W seconds after it, however many reports it sent while
\* blocked.  Every report to the event prints a line with its address and
\* its transport.
C37_BlockNotRefreshed ==
    [][\A ip \in {IpA, IpB} \cap {stdout'.ip}, packet \in RatePackets :
          (IF stdout'.source = "UDP" THEN UdpReport(packet, ip) ELSE HttpReport(packet, ip))
              => C37_Step(packet, ip)]_vars

\* A report from a blocked address was rejected some seconds after the
\* failure, and the entry still has the time of the failure
C37_Witness ==
    /\ stdout.kind = "rate-limited" /\ stdout.ip = IpA
    /\ IpA \in DOMAIN failed_auth_times
    /\ failed_auth_times[IpA] + 2 <= now
    /\ now < failed_auth_times[IpA] + RATE_LIMIT_SECONDS
    /\ IpB \notin DOMAIN failed_auth_times

\* What a request of the address ip does when its password is or is not
\* the one asked for: blocked, it is rejected and changes nothing; with a
\* password that fails, the failure is recorded under the address; with
\* the password, it is served
C38_Served(ip, matches, rejected, served) ==
    IF Blocked(ip)
    THEN /\ rejected
         /\ failed_auth_times' = failed_auth_times
         /\ \A eid \in {1, 2} : EventState(eid)' = EventState(eid)
    ELSE IF ~matches
    THEN /\ rejected
         /\ failed_auth_times' = DictSet(failed_auth_times, ip, now)
         /\ \A eid \in {1, 2} : EventState(eid)' = EventState(eid)
    ELSE /\ served
         /\ failed_auth_times' = failed_auth_times

\* C38: the rate-limit table is one map keyed by the client address: a
\* failed admin or manager password check from an address blocks its
\* tracker reports to every password-protected event for W seconds, and a
\* failed tracker authentication on one event blocks its reports to every
\* other protected event and its admin and manager requests for W seconds.
C38_OneTablePerAddress ==
    [][\A ip \in {IpA, IpB} \cap {stdout'.ip} :
          /\ \A packet \in SharedPackets :
                (UdpReport(packet, ip) \/ HttpReport(packet, ip)) =>
                    C38_Served(ip,
                               password_matches(SanitizedPackets[packet],
                                                events[SanitizedPackets[packet].eid]),
                               response'.error = "auth", Processed')
          /\ \A eid \in {1, 2}, password \in AdminPasswords :
                AdminGetUsers(eid, ip, password) =>
                    C38_Served(ip, password = events[eid].admin_password,
                               response'.status = 401, response'.status = 200)
          /\ \A password \in SentManagerPasswords :
                ManageEvents(ip, password) =>
                    C38_Served(ip, password = registry.manager_password,
                               response'.status = 401, response'.status = 200)]_vars

\* A report of tracker b to event 2, which carries the password of event 2,
\* was rejected as rate-limited: the failure recorded for its address was an
\* admin check, a manager check or a report to event 1
C38_Witness ==
    /\ stdout.kind = "rate-limited" /\ stdout.id = IdB /\ stdout.ip = IpA
    /\ response.error = "auth"
    /\ Blocked(IpA) /\ ~Blocked(IpB)

\* The data of an event: its directory and what its tracker holds
C39_Data(eid) == [dir |-> disk[eid], tracker |-> TrackerOf(eid)]
\* The event is archived and its tracker is in the tracker map
C39_Archived == events[1].archived /\ events'[1].archived /\ 1 \in DOMAIN event_trackers

C39_PostsRejected ==
    [][\A route \in {r \in AdminRoutes : r[1] # "DELETE"} :
          (C39_Archived /\ ArchiveRequest(route))
              => /\ C39_Data(1)' = C39_Data(1)
                 /\ route[1] = "POST" => response'.status = 400]_vars

\* The DELETE paths leave the data of an archived event as it is
C39_DeletesRejected ==
    [][\A route \in {r \in AdminRoutes : r[1] = "DELETE"} :
          (C39_Archived /\ ArchiveRequest(route)) => C39_Data(1)' = C39_Data(1)]_vars

\* The midnight clearer leaves the data of an archived event as it is
C39_MidnightSkipsArchived ==
    [][(C39_Archived /\ MidnightVisit) => C39_Data(1)' = C39_Data(1)]_vars

\* Every numeric field of the sanitized report sp lies in its range
C40_InRange(sp) ==
    /\ sp.sq \in Nat /\ sp.ts \in Nat /\ sp.eid \in Nat \ {0}
    /\ sp.lat \in -90..90 /\ sp.lon \in -180..180
    /\ "pos" \in DOMAIN sp =>
          \A i \in 1..Len(sp.pos) :
              /\ Len(sp.pos[i]) \in {3, 4}
              /\ sp.pos[i][1] \in Nat
              /\ sp.pos[i][2] \in -90..90 /\ sp.pos[i][3] \in -180..180
              /\ Len(sp.pos[i]) = 4 => sp.pos[i][4] \in 0..100
\* Where the first call returned, its result is in range and is what the
\* call on it returns
C40_Returned ==
    /\ loc["sanitize"].once # None => C40_InRange(loc["sanitize"].once[1])
    /\ loc["sanitize"].twice # None => loc["sanitize"].twice = loc["sanitize"].once

\* C40: sanitize_tracker_packet is idempotent: for every report p over
\* bounded sets of field values (strings containing markup characters,
\* out-of-range and wrongly typed numbers, string and native booleans, pos
\* arrays with short or over-long entries), sanitize(sanitize(p)) equals
\* sanitize(p), and every numeric field of sanitize(p), including every pos
\* entry, lies inside its documented range.
C40_SanitizeIdempotent ==
    /\ pc["sanitize"] # "raised"
    /\ C40_Returned

\* For every report on which the first call returns
C40_IdempotentWhereReturned == C40_Returned

====
